---- MODULE Spec2Model ----
(***************************************************************************)
(* A model of gamal.js: the labelled-field codec (construct/deconstruct),  *)
(* the streaming chat client, the Reason -> Search -> Respond pipeline and *)
(* the front-ends that run it against a conversation history.              *)
(*                                                                         *)
(* JavaScript strings are TLA+ strings; the string helpers below keep the  *)
(* JavaScript names and 0-based indices of the methods they model.         *)
(***************************************************************************)
EXTENDS Integers, Sequences, FiniteSets, TLC

VARIABLES
    \* ---- labelled-field codec (construct / deconstruct) ----
    codecPc,    \* "input" | "built" | "parsed" | "off"
    kv,         \* the key-value mapping handed to construct
    text,       \* the multi-line text handed to deconstruct
    parts,      \* the mapping deconstruct returned
    \* ---- chat: one call ----
    chatPc,     \* "fetch" | "reading" | "done" | "threw" | "off"
    call,       \* the handler given or not, LLM_STREAMING, and the HTTP response
    frames,     \* the frames the endpoint sends before the final "data: [DONE]"
    reads,      \* the network reads still to come, each a piece of the transcript
    delivered,  \* the network reads reader.read() has returned so far
    answer,     \* chat's local answer
    buffer,     \* chat's local carry-over buffer
    emitted,    \* the texts passed to the handler so far, in call order
    \* ---- the pipeline and the front-end that runs it ----
    fe,         \* "terminal" | "http" | "telegram" | "off"
    now,        \* Date.now()
    heap,       \* the history arrays ever created, by identity (index)
    historyVar, \* interact/serve: the array `let history` is bound to
    tgState,    \* poll: the array state[chat.id] holds, 0 while undefined
    resets,     \* how many /reset commands were handled
    run,        \* per inquiry: the handler's position and its locals
    reviewed,   \* what the latest /review command showed
    \* ---- interact's citation rewriter over one streamed answer ----
    citePc,     \* "streaming" | "flushed" | "off"
    citeText,   \* the answer text the stream delegate receives in all
    pieces,     \* the chunks of it still to come
    display,    \* interact's `display`: buffer and refs
    written,    \* what process.stdout.write has received so far
    \* ---- the test runner's regexify over one expected string ----
    regexPc,    \* "input" | "done" | "threw" | "off"
    expected,   \* the string given to regexify
    regexes,    \* the array it returned
    \* ---- evaluate over one test file ----
    evalPc,     \* "running" | "exited" | "off"
    fileLines,  \* the lines of the file as read
    cursor,     \* how many of them were given to handle
    failExit,   \* LLM_DEBUG_FAIL_EXIT
    ev,         \* evaluate's history, total and failures, and the exit status
    handled,    \* per line given to handle: the entry it saw as last, and
                \* whether the pipeline it started rejected
    \* ---- poll's format over one answer ----
    formatPc,   \* "scanning" | "listing" | "returned" | "threw" | "off"
    formatted,  \* format's locals: buffer and refs
    sources,    \* the references given to format
    turns       \* the parity of the turns its loop has made

codecVars == <<codecPc, kv, text, parts>>

chatVars == <<chatPc, call, frames, reads, delivered, answer, buffer, emitted>>

pipeVars == <<fe, now, heap, historyVar, tgState, resets, run, reviewed>>

citeVars == <<citePc, citeText, pieces, display, written>>

regexVars == <<regexPc, expected, regexes>>

evalVars == <<evalPc, fileLines, cursor, failExit, ev, handled>>

formatVars == <<formatPc, formatted, sources, turns>>

vars == <<codecVars, chatVars, pipeVars, citeVars, regexVars, evalVars, formatVars>>

(***************************************************************************)
(* JavaScript string methods                                               *)
(***************************************************************************)
MaxOf(S) == CHOOSE x \in S : \A y \in S : y <= x

MinOf(S) == CHOOSE x \in S : \A y \in S : x <= y

\* s[i] for a 0-based index inside the string, "" (undefined) outside
charAt(s, i) == IF i >= 0 /\ i < Len(s) THEN SubSeq(s, i + 1, i + 1) ELSE ""

\* String.prototype.substring(a, b), both indices clamped to the string
substring(s, a, b) ==
    LET lo == IF a < 0 THEN 0 ELSE IF a > Len(s) THEN Len(s) ELSE a
        hi == IF b < 0 THEN 0 ELSE IF b > Len(s) THEN Len(s) ELSE b
    IN  IF lo <= hi THEN SubSeq(s, lo + 1, hi) ELSE SubSeq(s, hi + 1, lo)

\* String.prototype.substr(a) / substring(a) / slice(a): from index a to the end
substrFrom(s, a) == substring(s, a, Len(s))

\* the 0-based indices at which pat occurs in s
occurrences(s, pat) ==
    {i \in 0..(Len(s) - Len(pat)) : SubSeq(s, i + 1, i + Len(pat)) = pat}

indexOf(s, pat) ==
    IF occurrences(s, pat) = {} THEN -1 ELSE MinOf(occurrences(s, pat))

lastIndexOf(s, pat) ==
    IF occurrences(s, pat) = {} THEN -1 ELSE MaxOf(occurrences(s, pat))

\* String.prototype.replace(pat, rep) with a string pattern: the first occurrence
replace(s, pat, rep) ==
    LET i == indexOf(s, pat)
    IN  IF i < 0 THEN s
        ELSE substring(s, 0, i) \o rep \o substrFrom(s, i + Len(pat))

WhiteSpace == {" ", "\n", "\t", "\r"}

nonSpace(s) == {i \in 0..(Len(s) - 1) : charAt(s, i) \notin WhiteSpace}

trimStart(s) == IF nonSpace(s) = {} THEN "" ELSE substrFrom(s, MinOf(nonSpace(s)))

trimEnd(s) == IF nonSpace(s) = {} THEN "" ELSE substring(s, 0, MaxOf(nonSpace(s)) + 1)

trim(s) == trimEnd(trimStart(s))

\* String.prototype.split(sep) with a non-empty separator
RECURSIVE split(_, _)
split(s, sep) ==
    LET i == indexOf(s, sep)
    IN  IF i < 0 THEN <<s>>
        ELSE <<substring(s, 0, i)>> \o split(substrFrom(s, i + Len(sep)), sep)

\* Array.prototype.join(sep)
RECURSIVE join(_, _)
join(arr, sep) ==
    IF Len(arr) = 0 THEN ""
    ELSE IF Len(arr) = 1 THEN arr[1]
    ELSE arr[1] \o sep \o join(Tail(arr), sep)

\* Array.prototype.reverse()
reverse(arr) == [i \in 1..Len(arr) |-> arr[Len(arr) + 1 - i]]

(***************************************************************************)
(* Objects used as string-keyed mappings                                   *)
(***************************************************************************)
EmptyMap == [k \in {} |-> ""]

Put(m, k, v) == [x \in (DOMAIN m) \cup {k} |-> IF x = k THEN v ELSE m[x]]

\* m[k] is a non-empty string (a truthy value of the mapping)
Has(m, k) == k \in DOMAIN m /\ m[k] # ""

(***************************************************************************)
(* The labelled-field codec                                                *)
(***************************************************************************)
PREDEFINED_KEYS ==
    <<"INQUIRY", "TOOL", "LANGUAGE", "THOUGHT", "KEYPHRASES", "OBSERVATION", "TOPIC">>

toLowerCase(key) ==
    CASE key = "INQUIRY" -> "inquiry"
      [] key = "TOOL" -> "tool"
      [] key = "LANGUAGE" -> "language"
      [] key = "THOUGHT" -> "thought"
      [] key = "KEYPHRASES" -> "keyphrases"
      [] key = "OBSERVATION" -> "observation"
      [] key = "TOPIC" -> "topic"
      [] OTHER -> key

\* a plausible slip in the loop: the value starts at the colon, not after it
RECURSIVE deconstructLoopFromColon(_, _, _, _)
deconstructLoopFromColon(keys, i, str, acc) ==
    IF i > Len(keys) THEN acc
    ELSE LET marker == keys[i]
             pos == lastIndexOf(str, marker \o ":")
         IN  IF pos >= 0
             THEN LET substr == trim(substrFrom(str, pos + Len(marker)))
                      value == split(substr, "\n")[1]
                  IN  deconstructLoopFromColon(keys, i + 1, substring(str, 0, pos),
                                               Put(acc, toLowerCase(marker), value))
             ELSE deconstructLoopFromColon(keys, i + 1, str, acc)

\* the body of deconstruct's for loop, from index i of the reversed markers
RECURSIVE deconstructLoop(_, _, _, _)
deconstructLoop(keys, i, str, acc) ==
    IF i > Len(keys) THEN acc
    ELSE LET marker == keys[i]
             pos == lastIndexOf(str, marker \o ":")
         IN  IF pos >= 0
             THEN LET substr == trim(substrFrom(str, pos + Len(marker) + 1))
                      value == split(substr, "\n")[1]
                  IN  deconstructLoop(keys, i + 1, substring(str, 0, pos),
                                      Put(acc, toLowerCase(marker), value))
             ELSE deconstructLoop(keys, i + 1, str, acc)

deconstruct(txt, markers) ==
    LET keys == reverse(markers)
        anchor == markers[Len(markers)]
        start == lastIndexOf(txt, anchor \o ":")
    IN  IF start >= 0
        THEN deconstructLoop(keys, 1, substring(txt, 0, start),
                 Put(EmptyMap, toLowerCase(anchor),
                     trim(replace(substrFrom(txt, start), anchor \o ":", ""))))
        ELSE EmptyMap

\* the keys construct keeps: those whose value is truthy
RECURSIVE constructLines(_, _)
constructLines(m, i) ==
    IF i > Len(PREDEFINED_KEYS) THEN <<>>
    ELSE LET key == PREDEFINED_KEYS[i]
         IN  (IF Has(m, toLowerCase(key))
              THEN <<key \o ": " \o m[toLowerCase(key)]>>
              ELSE <<>>) \o constructLines(m, i + 1)

construct(m) == join(constructLines(m, 1), "\n")

(***************************************************************************)
(* The codec applied to bounded inputs: a mapping is serialized by         *)
(* construct and the text parsed back by deconstruct, or deconstruct is    *)
(* applied to a text as the LLM may write it.                              *)
(***************************************************************************)
CodecKeys == {"tool", "language", "thought", "keyphrases", "observation", "topic"}

\* values that survive a line-based record: one line, no outer blanks, no marker
CleanVals == {"a", "b c"}

\* non-empty values with outer blanks, a line break or marker text inside
DirtyVals == {" a", "a ", "a\nb", "x TOPIC: y"}

\* how many keys of a mapping may hold a value of DirtyVals
MaxDirty == 1

Mappings ==
    {m \in UNION {[D -> CleanVals \cup DirtyVals] : D \in SUBSET CodecKeys} :
        Cardinality({k \in DOMAIN m : m[k] \in DirtyVals}) <= MaxDirty}

\* texts as an LLM may complete them
RawTexts ==
    { "TOPIC: a\nTOPIC: b",
      "TOOL: Google.\nLANGUAGE: English.\nTHOUGHT: t\nKEYPHRASES: k\nOBSERVATION: o\nTOPIC: x",
      "THOUGHT: the TOPIC: is y\nKEYPHRASES: k\nTOPIC: x",
      "THOUGHT: t1\nKEYPHRASES: k1\nTOPIC: x1\n\nTHOUGHT: t2\nKEYPHRASES: k2\nTOPIC: x2",
      "THOUGHT: t\nKEYPHRASES: k",
      "TOPIC: a\nsome chatter\nTOPIC: b \n",
      "English.\nTHOUGHT: t\nKEYPHRASES: k",
      "English.\nKEYPHRASES: k\nTHOUGHT: t",
      "English.\nTHOUGHT: t\nKEYPHRASES: k\nTOPIC:",
      "English.\nTOPIC: \nTHOUGHT: t" }

CodecStart ==
    /\ parts = EmptyMap
    /\ \/ codecPc = "input" /\ kv \in Mappings /\ text = ""
       \/ codecPc = "built" /\ kv = EmptyMap /\ text \in RawTexts

CodecOff == codecPc = "off" /\ kv = EmptyMap /\ text = "" /\ parts = EmptyMap

Construct ==
    /\ codecPc = "input"
    /\ text' = construct(kv)
    /\ codecPc' = "built"
    /\ UNCHANGED <<kv, parts, chatVars, pipeVars, citeVars, regexVars, evalVars, formatVars>>

Deconstruct ==
    /\ codecPc = "built"
    /\ parts' = deconstruct(text, PREDEFINED_KEYS)
    /\ codecPc' = "parsed"
    /\ UNCHANGED <<kv, text, chatVars, pipeVars, citeVars, regexVars, evalVars, formatVars>>



(***************************************************************************)
(* chat, streaming path                                                    *)
(***************************************************************************)
\* what parse(line) yields: null, undefined (no content in the delta) or a string
Null == [tag |-> "null"]

Undefined == [tag |-> "undefined"]

Str(s) == [tag |-> "string", val |-> s]

DeltaOpen == "{\"choices\":[{\"delta\":{"

DeltaClose == "}}]}"

ContentKey == "\"content\":"

startsWith(s, pre) == Len(s) >= Len(pre) /\ substring(s, 0, Len(pre)) = pre

endsWith(s, suf) == Len(s) >= Len(suf) /\ substrFrom(s, Len(s) - Len(suf)) = suf

\* JSON.parse(payload) followed by the destructuring of choices[0].delta.content,
\* for the chunk objects of the chat-completions stream: a payload that is not a
\* complete chunk object throws (JSON.parse, or the destructuring of undefined).
jsonDeltaContent(payload) ==
    IF ~(startsWith(payload, DeltaOpen) /\ endsWith(payload, DeltaClose)
         /\ Len(payload) >= Len(DeltaOpen) + Len(DeltaClose))
    THEN [threw |-> TRUE, content |-> Undefined]
    ELSE LET delta == substring(payload, Len(DeltaOpen), Len(payload) - Len(DeltaClose))
             value == substrFrom(delta, Len(ContentKey))
         IN  IF delta = "" \/ delta = "\"role\":\"assistant\""
             THEN [threw |-> FALSE, content |-> Undefined]
             ELSE IF ~startsWith(delta, ContentKey)
             THEN [threw |-> TRUE, content |-> Undefined]
             ELSE IF value = "null"
             THEN [threw |-> FALSE, content |-> Null]
             ELSE IF /\ Len(value) >= 2
                     /\ charAt(value, 0) = "\""
                     /\ charAt(value, Len(value) - 1) = "\""
                     /\ indexOf(substring(value, 1, Len(value) - 1), "\"") < 0
                     /\ indexOf(value, "\\") < 0
             THEN [threw |-> FALSE, content |-> Str(substring(value, 1, Len(value) - 1))]
             ELSE [threw |-> TRUE, content |-> Undefined]

\* chat's inner function parse(line)
parse(line) ==
    IF substring(line, 0, 6) = "data: "
    THEN LET r == jsonDeltaContent(substrFrom(line, 6))
         IN  IF r.threw THEN Null ELSE r.content
    ELSE Null

\* one iteration of the for loop over the lines of a read; st.stop is the break
lineStep(st, rawLine) ==
    LET line == st.buffer \o rawLine
    IN  IF charAt(line, 0) = ":"
        THEN [st EXCEPT !.buffer = ""]
        ELSE IF line = "data: [DONE]"
        THEN [st EXCEPT !.stop = TRUE]
        ELSE IF Len(line) > 0
        THEN LET partial == parse(line)
             IN  IF partial = Null
                 THEN [st EXCEPT !.buffer = line]
                 ELSE IF partial.tag = "string" /\ Len(partial.val) > 0
                 THEN IF Len(st.answer) < 1
                      THEN LET leading == trim(partial.val)
                           IN  [st EXCEPT !.buffer = "",
                                          !.answer = leading,
                                          !.emitted = IF Len(leading) > 0
                                                      THEN Append(@, leading) ELSE @]
                      ELSE [st EXCEPT !.buffer = "",
                                      !.answer = @ \o partial.val,
                                      !.emitted = Append(@, partial.val)]
                 ELSE st
        ELSE st

RECURSIVE forLines(_, _, _)
forLines(st, lines, i) ==
    IF i > Len(lines) \/ st.stop THEN st
    ELSE forLines(lineStep(st, lines[i]), lines, i + 1)

\* the body of the while loop for one read that is not the end of the stream
processRead(st, value) ==
    [forLines([st EXCEPT !.stop = FALSE], split(value, "\n"), 1) EXCEPT !.stop = FALSE]

\* the whole while loop over a list of reads
RECURSIVE streamAll(_, _)
streamAll(st, chunks) ==
    IF Len(chunks) = 0 THEN st
    ELSE streamAll(processRead(st, Head(chunks)), Tail(chunks))

StreamStart == [answer |-> "", buffer |-> "", emitted |-> <<>>, stop |-> FALSE]

(***************************************************************************)
(* The endpoint's transcript: frames, each followed by a blank line, then  *)
(* the line "data: [DONE]".                                                *)
(***************************************************************************)
\* delta contents the endpoint sends
Contents == {"Hi", " a ", " ", ""}

FrameKinds ==
    {[kind |-> "delta", content |-> c] : c \in Contents}
        \cup {[kind |-> "role"], [kind |-> "null"], [kind |-> "comment"], [kind |-> "done"]}

\* how many frames precede the final "data: [DONE]"
MaxFrames == 2

FrameSeqs == UNION {[1..n -> FrameKinds] : n \in 0..MaxFrames}

frameText(f) ==
    CASE f.kind = "delta" ->
            "data: " \o DeltaOpen \o ContentKey \o "\"" \o f.content \o "\"" \o DeltaClose
      [] f.kind = "role" -> "data: " \o DeltaOpen \o "\"role\":\"assistant\"" \o DeltaClose
      [] f.kind = "null" -> "data: " \o DeltaOpen \o ContentKey \o "null" \o DeltaClose
      [] f.kind = "comment" -> ": ping"
      [] f.kind = "done" -> "data: [DONE]"

RECURSIVE transcriptOf(_)
transcriptOf(fs) ==
    IF Len(fs) = 0 THEN "data: [DONE]\n\n"
    ELSE frameText(Head(fs)) \o "\n\n" \o transcriptOf(Tail(fs))

\* the transcript as one read, or cut in two reads at any character
Splits(t) ==
    {<<t>>} \cup {<<substring(t, 0, c), substrFrom(t, c)>> : c \in 1..(Len(t) - 1)}

\* message.content of a response to a request without stream: a string, null,
\* or nothing to destructure (a body that is not the expected JSON)
Bodies == {Str(c) : c \in Contents} \cup {Null, Undefined}

\* stream = LLM_STREAMING && typeof handler === 'function'
streams(c) == c.streaming /\ c.handler

ChatCalls ==
    [handler : BOOLEAN, streaming : BOOLEAN, ok : BOOLEAN, body : Bodies]

NoCall == [handler |-> FALSE, streaming |-> FALSE, ok |-> FALSE, body |-> Undefined]

\* the call is waiting for fetch; only a 2xx response to a streaming request is
\* read as a transcript
ChatStart ==
    /\ chatPc = "fetch"
    /\ call \in ChatCalls
    /\ IF streams(call) /\ call.ok
       THEN /\ call.body = Undefined
            /\ frames \in FrameSeqs
            /\ reads \in Splits(transcriptOf(frames))
       ELSE /\ ~call.ok => call.body = Undefined
            /\ frames = <<>>
            /\ reads = <<>>
    /\ delivered = <<>>
    /\ answer = ""
    /\ buffer = ""
    /\ emitted = <<>>

ChatOff ==
    /\ chatPc = "off"
    /\ call = NoCall
    /\ delivered = <<>>
    /\ frames = <<>>
    /\ reads = <<>>
    /\ answer = ""
    /\ buffer = ""
    /\ emitted = <<>>

\* fetch returns: a non-2xx response throws; without stream the body is read,
\* the content trimmed, handed to the handler and returned (a content that is
\* not a string throws); otherwise the reader is opened
ChatResponse ==
    /\ chatPc = "fetch"
    /\ IF ~call.ok
       THEN chatPc' = "threw" /\ UNCHANGED <<answer, emitted, evalVars, formatVars>>
       ELSE IF streams(call)
       THEN chatPc' = "reading" /\ UNCHANGED <<answer, emitted, evalVars, formatVars>>
       ELSE IF call.body.tag # "string"
       THEN chatPc' = "threw" /\ UNCHANGED <<answer, emitted, evalVars, formatVars>>
       ELSE /\ chatPc' = "done"
            /\ answer' = trim(call.body.val)
            /\ emitted' = IF call.handler THEN <<trim(call.body.val)>> ELSE <<>>
    /\ UNCHANGED <<call, frames, reads, delivered, buffer, codecVars, pipeVars, citeVars, regexVars, evalVars, formatVars>>

\* reader.read() returns a value: one pass of the while loop
ChatRead ==
    /\ chatPc = "reading"
    /\ Len(reads) > 0
    /\ LET st == processRead([answer |-> answer, buffer |-> buffer,
                              emitted |-> emitted, stop |-> FALSE], Head(reads))
       IN  /\ answer' = st.answer
           /\ buffer' = st.buffer
           /\ emitted' = st.emitted
    /\ reads' = Tail(reads)
    /\ delivered' = Append(delivered, Head(reads))
    /\ UNCHANGED <<chatPc, call, frames, codecVars, pipeVars, citeVars, regexVars, evalVars, formatVars>>

\* reader.read() returns done: chat returns answer
ChatEnd ==
    /\ chatPc = "reading"
    /\ Len(reads) = 0
    /\ chatPc' = "done"
    /\ UNCHANGED <<call, frames, reads, delivered, answer, buffer, emitted, codecVars, pipeVars,
                   citeVars, regexVars, evalVars, formatVars>>

ChatNext == ChatResponse \/ ChatRead \/ ChatEnd

(***************************************************************************)
(* interact's citation rewriter: push and flush                            *)
(***************************************************************************)
\* stands for the character U+001B, which a TLA+ string cannot hold
ESC == "^"

GRAY == ESC \o "[90m"

NORMAL == ESC \o "[0m"

\* 3 * '[citation:x]'.length
MAX_LOOKAHEAD == 3 * Len("[citation:x]")

Digits == "0123456789"

isDigit(c) == Len(c) = 1 /\ indexOf(Digits, c) >= 0

\* how many digits stand in s from index i on: the greedy \d+
RECURSIVE digitRun(_, _)
digitRun(s, i) == IF isDigit(charAt(s, i)) THEN 1 + digitRun(s, i + 1) ELSE 0

\* /\[citation:(\d+)\]/ matches at index i
matchesAt(s, i) ==
    /\ substring(s, i, i + 10) = "[citation:"
    /\ digitRun(s, i + 10) >= 1
    /\ charAt(s, i + 10 + digitRun(s, i + 10)) = "]"

NoMatch == [index |-> -1, number |-> "", length |-> 0]

\* PATTERN.exec(s) for the global pattern with the given lastIndex
exec(s, lastIndex) ==
    LET found == {i \in lastIndex..(Len(s) - 1) : matchesAt(s, i)}
    IN  IF found = {} THEN NoMatch
        ELSE LET i == MinOf(found)
                 n == digitRun(s, i + 10)
             IN  [index |-> i, number |-> substring(s, i + 10, i + 10 + n),
                  length |-> 11 + n]

\* a <= b for two strings of digits, as JavaScript compares strings
RECURSIVE digitsLessEq(_, _)
digitsLessEq(a, b) ==
    IF Len(a) = 0 THEN TRUE
    ELSE IF Len(b) = 0 THEN FALSE
    ELSE LET x == indexOf(Digits, charAt(a, 0))
             y == indexOf(Digits, charAt(b, 0))
         IN  IF x # y THEN x < y ELSE digitsLessEq(substrFrom(a, 1), substrFrom(b, 1))

\* parseInt(number, 10) for a string of digits
RECURSIVE parseInt(_)
parseInt(number) ==
    IF Len(number) = 0 THEN 0
    ELSE 10 * parseInt(substring(number, 0, Len(number) - 1))
            + indexOf(Digits, charAt(number, Len(number) - 1))

\* `${n}` for n >= 0
RECURSIVE toString(_)
toString(n) ==
    IF n < 10 THEN charAt(Digits, n) ELSE toString(n \div 10) \o charAt(Digits, n % 10)

\* refs.indexOf(num), 0-based, -1 when absent
refIndexOf(refs, num) ==
    IF \E i \in 1..Len(refs) : refs[i] = num
    THEN MinOf({i \in 1..Len(refs) : refs[i] = num}) - 1
    ELSE -1

\* the while loop of push: PATTERN keeps its lastIndex while buffer is rewritten
RECURSIVE pushLoop(_, _, _)
pushLoop(buf, refs, lastIndex) ==
    LET match == exec(buf, lastIndex)
    IN  IF match = NoMatch THEN [buffer |-> buf, refs |-> refs]
        ELSE IF digitsLessEq("0", match.number) /\ digitsLessEq(match.number, "9")
        THEN LET num == parseInt(match.number)
                 refs2 == IF refIndexOf(refs, num) < 0 THEN Append(refs, num) ELSE refs
                 citation == 1 + refIndexOf(refs2, num)
                 ref == GRAY \o "[" \o toString(citation) \o "]" \o NORMAL
             IN  pushLoop(substring(buf, 0, match.index) \o ref
                              \o substrFrom(buf, match.index + 12),
                          refs2, match.index + match.length)
        ELSE pushLoop(buf, refs, match.index + match.length)

\* a plausible slip: push writes all it has, keeping nothing back
pushNoLookahead(disp, txt) ==
    LET done == pushLoop(disp.buffer \o txt, disp.refs, 0)
    IN  [buffer |-> "", refs |-> done.refs, output |-> done.buffer]

\* push(display, text); output is what it hands to process.stdout.write
push(disp, txt) ==
    LET done == pushLoop(disp.buffer \o txt, disp.refs, 0)
        n == Len(done.buffer)
    IN  IF n > MAX_LOOKAHEAD
        THEN [buffer |-> substrFrom(done.buffer, n - MAX_LOOKAHEAD), refs |-> done.refs,
              output |-> substring(done.buffer, 0, n - MAX_LOOKAHEAD)]
        ELSE [buffer |-> done.buffer, refs |-> done.refs, output |-> ""]

\* flush(display): buffer.trimRight() goes out, display starts afresh
flush(disp) == [buffer |-> "", refs |-> <<>>, output |-> trimEnd(disp.buffer)]

\* what pushing the chunks one after the other and flushing writes in all
RECURSIVE writtenBy(_, _, _)
writtenBy(disp, out, cs) ==
    IF Len(cs) = 0 THEN out \o flush(disp).output
    ELSE LET next == push(disp, Head(cs))
         IN  writtenBy([buffer |-> next.buffer, refs |-> next.refs],
                       out \o next.output, Tail(cs))

NewDisplay == [buffer |-> "", refs |-> <<>>]

(***************************************************************************)
(* The cited sources: poll's format, and the listing interact prints       *)
(***************************************************************************)
\* the url of a reference is that of the hit it was made from
urlOf(reference) == "u" \o toString(reference.hit)

\* format before its loop: scanning is TRUE until the loop breaks
NewFormat(txt) == [buffer |-> txt, refs |-> <<>>, scanning |-> TRUE]

\* one turn of format's while (true), from the index indexOf has returned
formatAt(st, index) ==
    IF index < 0 THEN [st EXCEPT !.scanning = FALSE]
    ELSE LET number == charAt(st.buffer, index + 10)
         IN  IF isDigit(number)
             THEN LET num == parseInt(number)
                      refs2 == IF refIndexOf(st.refs, num) < 0
                               THEN Append(st.refs, num) ELSE st.refs
                      citation == 1 + refIndexOf(refs2, num)
                  IN  [st EXCEPT
                          !.buffer = substring(st.buffer, 0, index)
                                         \o "[" \o toString(citation) \o "]"
                                         \o substrFrom(st.buffer, index + 12),
                          !.refs = refs2]
             ELSE st

\* one turn of format's while (true)
formatTurn(st) == formatAt(st, indexOf(st.buffer, "[citation:"))

\* the loop as a whole: it ends when a turn breaks, and never when a turn
\* leaves buffer and refs as they were (scanning stays TRUE)
RECURSIVE formatLoop(_)
formatLoop(st) ==
    LET next == formatTurn(st)
    IN  IF ~next.scanning \/ next = st THEN next ELSE formatLoop(next)

\* references && Array.isArray(references) && references.length >= refs.length
listed(refs, references) == Len(references) >= Len(refs)

\* the citation numbers for which references[ref - 1] is undefined
unlisted(refs, references) ==
    {i \in 1..Len(refs) : refs[i] - 1 \notin 0..(Len(references) - 1)}

\* the lines refs.forEach appends in format
RECURSIVE referenceLines(_, _, _)
referenceLines(refs, references, i) ==
    IF i > Len(refs) THEN ""
    ELSE "[" \o toString(i) \o "] " \o urlOf(references[refs[i]]) \o "\n"
             \o referenceLines(refs, references, i + 1)

\* the end of format: the list of sources; destructuring undefined throws
formatList(st, references) ==
    IF ~listed(st.refs, references) THEN [outcome |-> "returned", buffer |-> st.buffer]
    ELSE IF unlisted(st.refs, references) # {}
    THEN [outcome |-> "threw", buffer |-> st.buffer \o "\n\nReferences:\n"]
    ELSE [outcome |-> "returned",
          buffer |-> st.buffer \o "\n\nReferences:\n"
                         \o referenceLines(st.refs, references, 1)]

\* format once its loop is over, or known never to be
formatEnd(looped, references) ==
    IF looped.scanning THEN [outcome |-> "hangs", buffer |-> looped.buffer]
    ELSE formatList(looped, references)

\* format(answer, references): what it returns, or that it throws or never returns
format(txt, references) == formatEnd(formatLoop(NewFormat(txt)), references)

(***************************************************************************)
(* The pipeline: reason, search, respond                                   *)
(*                                                                         *)
(* A run is one inquiry: the front-end's handler with the pipeline inside. *)
(* Its record holds the handler's position (pc: the await it is suspended  *)
(* at) and its locals; the operators below are the code between two awaits.*)
(***************************************************************************)
TOP_K == 3

\* the attempt parameter search starts with
SEARCH_ATTEMPTS == 3

NoResponse == [seen |-> FALSE, ok |-> FALSE, json |-> FALSE, hits |-> 0]

\* a run before its inquiry arrives; response is the answer to the latest search
\* request and responses all the answers the run has received, in order;
\* replies are the answers of the chat endpoint, stream tells whether the
\* delegates hold a stream function, sunk is what that function was called with
\* reply is what the handler gives out after the answer: the urls interact
\* lists, the message poll sends.
\* epoch is the number of /reset commands handled before the inquiry arrived;
\* the code keeps no such record, and nothing in the model of the code reads it
NewRun ==
    [pc |-> "new", history |-> 0, start |-> 0, stages |-> <<>>, result |-> EmptyMap,
     references |-> <<>>, answer |-> "", attempt |-> 0,
     chats |-> 0, requests |-> 0, response |-> NoResponse, responses |-> <<>>,
     replies |-> <<>>, stream |-> FALSE, sunk |-> <<>>,
     query |-> "", messages |-> <<>>, prompts |-> <<>>, contexts |-> <<>>,
     epoch |-> 0, reply |-> <<>>]

\* the delegates every front-end passes: stages.push({ name, timestamp }).
\* kind records which delegate pushed the event; the code's events carry no
\* such field, and nothing in the model of the code reads it
enter(rec, name, t) ==
    [rec EXCEPT !.stages = Append(@, [kind |-> "enter", name |-> name, timestamp |-> t,
                                      fields |-> EmptyMap])]

\* stages.push({ name, timestamp, ...fields })
leave(rec, name, t, fields) ==
    [rec EXCEPT !.stages = Append(@, [kind |-> "leave", name |-> name, timestamp |-> t,
                                      fields |-> fields])]

\* an exception leaves the stage: the pipeline's promise rejects
throw(rec) == [rec EXCEPT !.pc = "failed"]

\* a plausible slip: the first parse is returned whether or not it has a topic
breakdownNoFallback(hint, completion) ==
    deconstruct(hint \o completion, PREDEFINED_KEYS)

breakdown(hint, completion) ==
    LET txt == hint \o completion
        result == deconstruct(txt, PREDEFINED_KEYS)
    IN  IF ~Has(result, "topic")
        THEN deconstruct(txt \o "\n" \o "TOPIC: general knowledge.", PREDEFINED_KEYS)
        ELSE result

ReasonHint == join(<<"TOOL: Google.", "LANGUAGE: ">>, "\n")

\* string concatenation writes an absent thought as "undefined"
RetryHint(result) ==
    join(<<"TOOL: Google.",
           "THOUGHT: " \o (IF "thought" \in DOMAIN result THEN result["thought"]
                           ELSE "undefined"),
           "KEYPHRASES: ">>, "\n")

\* the hints reason primes the assistant with: the first one, and the retry's
\* with a thought or without one
CodecHints ==
    {ReasonHint, RetryHint(Put(EmptyMap, "thought", "t")), RetryHint(EmptyMap)}

\* breakdown applied to a hint and a completion; text becomes the concatenation
\* it parses
Breakdown ==
    /\ codecPc = "built"
    /\ kv = EmptyMap
    /\ \E hint \in CodecHints :
          /\ text' = hint \o text
          /\ parts' = breakdown(hint, text)
    /\ codecPc' = "brokendown"
    /\ UNCHANGED <<kv, chatVars, pipeVars, citeVars, regexVars, evalVars, formatVars>>

CodecNext == Construct \/ Deconstruct \/ Breakdown

\* the first line of the system prompt stands for the whole of it
REASON_PROMPT == "You are Gamal, a world-class answering assistant."

\* the heading of the few-shot example stands for the whole of it
REASON_EXAMPLE == "\n\n# Example\n\nTOOL: Google.\nLANGUAGE: French."

\* { ...a, ...b }: the fields of both, those of b where both have one
spread(a, b) ==
    [k \in (DOMAIN a) \cup (DOMAIN b) |-> IF k \in DOMAIN b THEN b[k] ELSE a[k]]

\* Array.prototype.slice(-n)
sliceLast(arr, n) == SubSeq(arr, MaxOf({1, Len(arr) - n + 1}), Len(arr))

\* the text an inquiry is made of
inquiryOf(n) == "inquiry " \o SubSeq("0123456789", n + 1, n + 1)

\* the assistant message reason builds from a history entry
assistantOf(msg) ==
    construct(spread([k \in (DOMAIN msg.result) \cap {"thought", "keyphrases", "topic"}
                         |-> msg.result[k]],
                     [tool |-> "Google.", observation |-> msg.answer]))

\* relevant.forEach: a user and an assistant message for each entry
RECURSIVE relevantMessages(_)
relevantMessages(relevant) ==
    IF Len(relevant) = 0 THEN <<>>
    ELSE <<[role |-> "user", content |-> inquiryOf(Head(relevant).inquiry)],
           [role |-> "assistant", content |-> assistantOf(Head(relevant))]>>
         \o relevantMessages(Tail(relevant))

\* a plausible slip: every entry of the history informs the prompt
reasonMessagesWholeHistory(hist, inquiry) ==
    <<[role |-> "system",
       content |-> IF Len(hist) = 0 THEN REASON_PROMPT \o REASON_EXAMPLE
                   ELSE REASON_PROMPT]>>
        \o relevantMessages(hist)
        \o <<[role |-> "user", content |-> inquiry],
             [role |-> "assistant", content |-> ReasonHint]>>

\* the messages of reason's first chat call
reasonMessages(hist, inquiry) ==
    LET relevant == sliceLast(hist, 3)
        prompt == IF Len(relevant) = 0 THEN REASON_PROMPT \o REASON_EXAMPLE
                  ELSE REASON_PROMPT
    IN  <<[role |-> "system", content |-> prompt]>>
            \o relevantMessages(relevant)
            \o <<[role |-> "user", content |-> inquiry],
                 [role |-> "assistant", content |-> ReasonHint]>>

\* a plausible slip: the retry's hint is pushed without the pop before it
retryMessagesNoPop(messages, hint) ==
    Append(messages, [role |-> "assistant", content |-> hint])

\* messages.pop(); messages.push({ role: 'assistant', content: hint })
retryMessages(messages, hint) ==
    Append(SubSeq(messages, 1, Len(messages) - 1),
           [role |-> "assistant", content |-> hint])

\* reason up to its first await: enter, the messages, the first chat call
reasonStart(rec, hist, t) ==
    [enter(rec, "Reason", t) EXCEPT
        !.pc = "reason1", !.chats = @ + 1,
        !.prompts = <<reasonMessages(hist, rec.contexts[1].inquiry)>>]

\* keyphrases.replace(/\.$/, "").replace(/^"|"$/g, "")
queryOf(keyphrases) ==
    LET k == IF endsWith(keyphrases, ".")
             THEN substring(keyphrases, 0, Len(keyphrases) - 1) ELSE keyphrases
        l == IF startsWith(k, "\"") THEN substrFrom(k, 1) ELSE k
    IN  IF endsWith(l, "\"") THEN substring(l, 0, Len(l) - 1) ELSE l

\* the fields reason passes to leave and returns on top of the context
ReasonFields == {"language", "topic", "thought", "keyphrases", "observation"}

\* search up to its await: enter, the query (keyphrases.replace throws on
\* undefined), the fetch
searchStart(rec, attempt, t) ==
    LET entered == enter(rec, "Search", t)
    IN  IF "keyphrases" \notin DOMAIN rec.result
        THEN throw(entered)
        ELSE [entered EXCEPT !.pc = "search", !.attempt = attempt, !.requests = @ + 1,
                             !.query = queryOf(rec.result["keyphrases"])]

\* the end of reason: leave, return; pipe then calls search with the context
reasonFinish(rec, result, t) ==
    LET fields == [k \in DOMAIN result \cap ReasonFields |-> result[k]]
        context == rec.contexts[1]
    IN  searchStart([leave(rec, "Reason", t, fields) EXCEPT
                        !.result = result,
                        !.contexts = Append(@, spread(fields, context))],
                    SEARCH_ATTEMPTS, t)

\* chat(messages, handler) once the endpoint has answered: a 2xx answer that is
\* not empty goes to the handler, if there is one
heardBy(rec, llm, handler) ==
    [rec EXCEPT !.replies = Append(@, llm),
                !.sunk = IF handler /\ llm.ok /\ Len(trim(llm.content)) > 0
                         THEN Append(@, trim(llm.content)) ELSE @]

\* a plausible slip: reason passes the stream delegate to chat
reasonReturnStreams(rec, llm, t) ==
    LET heard == heardBy(rec, llm, rec.stream)
    IN  IF ~llm.ok THEN throw(heard)
        ELSE LET result == breakdown(ReasonHint, trim(llm.content))
             IN  IF ~Has(result, "keyphrases")
                 THEN [heard EXCEPT
                         !.pc = "reason2", !.result = result, !.chats = @ + 1,
                         !.prompts = Append(@, retryMessages(rec.prompts[1],
                                                             RetryHint(result)))]
                 ELSE reasonFinish(heard, result, t)

\* reason after its first chat call; chat throws on a non-2xx answer
reasonReturn(rec, llm, t) ==
    LET heard == heardBy(rec, llm, FALSE)
    IN  IF ~llm.ok THEN throw(heard)
        ELSE LET result == breakdown(ReasonHint, trim(llm.content))
             IN  IF ~Has(result, "keyphrases")
                 THEN [heard EXCEPT
                         !.pc = "reason2", !.result = result, !.chats = @ + 1,
                         !.prompts = Append(@, retryMessages(rec.prompts[1],
                                                             RetryHint(result)))]
                 ELSE reasonFinish(heard, result, t)

\* reason after its second chat call
reasonRetryReturn(rec, llm, t) ==
    LET heard == heardBy(rec, llm, FALSE)
    IN  IF ~llm.ok THEN throw(heard)
        ELSE reasonFinish(heard, breakdown(RetryHint(rec.result), trim(llm.content)), t)

\* respond up to its await: enter, the prompt, the chat call
respondStart(rec, t) ==
    LET language == IF "language" \in DOMAIN rec.result THEN rec.result["language"]
                    ELSE "undefined"
        messages == IF Len(rec.references) > 0
                    THEN <<[role |-> "system", language |-> language,
                            references |-> rec.references],
                           [role |-> "user", language |-> "", references |-> <<>>]>>
                    ELSE <<>>
    IN  [enter(rec, "Respond", t) EXCEPT !.pc = "respond", !.chats = @ + 1,
                                         !.messages = messages]

\* hits.slice(0, TOP_K).map(...): position i + 1 for the hit at index i
referencesOf(hits) ==
    [i \in 1..(IF hits < TOP_K THEN hits ELSE TOP_K) |-> [position |-> i, hit |-> i]]

\* a plausible slip: respond is called with the context search received, not
\* with the one it returned
searchFinishStaleContext(rec, references, t) ==
    respondStart(leave(rec, "Search", t, [references |-> references]), t)

\* the end of search: leave, return; pipe then calls respond with the context
searchFinish(rec, references, t) ==
    LET context == rec.contexts[2]
    IN  respondStart([leave(rec, "Search", t, [references |-> references]) EXCEPT
                         !.references = references,
                         !.contexts = Append(@, spread(context,
                                                       [references |-> references]))],
                     t)

\* a plausible slip: running out of attempts with no hits throws, as a failure does
searchReturnThrowsWhenEmpty(rec, http, t) ==
    LET seen == [rec EXCEPT !.response = http, !.responses = Append(@, http)]
    IN  IF ~http.json THEN throw(seen)
        ELSE IF ~http.ok
        THEN IF rec.attempt > 1 THEN searchStart(seen, rec.attempt - 1, t)
             ELSE throw(seen)
        ELSE IF http.hits > 0 THEN searchFinish(seen, referencesOf(http.hits), t)
        ELSE IF rec.attempt > 1 THEN searchStart(seen, rec.attempt - 1, t)
        ELSE throw(seen)

\* a plausible slip: the retry is made with the same attempt number
searchReturnKeepsAttempt(rec, http, t) ==
    LET seen == [rec EXCEPT !.response = http, !.responses = Append(@, http)]
    IN  IF ~http.json THEN throw(seen)
        ELSE IF ~http.ok
        THEN IF rec.attempt > 1 THEN searchStart(seen, rec.attempt, t)
             ELSE throw(seen)
        ELSE IF http.hits > 0 THEN searchFinish(seen, referencesOf(http.hits), t)
        ELSE IF rec.attempt > 1 THEN searchStart(seen, rec.attempt, t)
        ELSE searchFinish(seen, <<>>, t)

\* search after its fetch: response.json() comes first and throws on a body
\* that is not JSON; then the status, the hits and the retries
searchReturn(rec, http, t) ==
    LET seen == [rec EXCEPT !.response = http, !.responses = Append(@, http)]
    IN  IF ~http.json THEN throw(seen)
        ELSE IF ~http.ok
        THEN IF rec.attempt > 1 THEN searchStart(seen, rec.attempt - 1, t)
             ELSE throw(seen)
        ELSE IF http.hits > 0 THEN searchFinish(seen, referencesOf(http.hits), t)
        ELSE IF rec.attempt > 1 THEN searchStart(seen, rec.attempt - 1, t)
        ELSE searchFinish(seen, <<>>, t)

\* a plausible slip: respond catches the error of chat and answers nothing
respondReturnSwallowsError(rec, llm, t) ==
    LET heard == [rec EXCEPT !.replies = Append(@, llm)]
        said == IF llm.ok THEN trim(llm.content) ELSE ""
    IN  [leave(heard, "Respond", t, [inquiry |-> "inquiry"]) EXCEPT
            !.answer = said,
            !.sunk = IF rec.stream /\ Len(said) > 0 THEN Append(@, said) ELSE @,
            !.pc = "returned"]

\* a plausible slip: respond returns the answer without the context
respondReturnAnswerOnly(rec, llm, t) ==
    LET heard == [rec EXCEPT !.replies = Append(@, llm)]
        said == trim(llm.content)
    IN  IF ~llm.ok THEN throw(heard)
        ELSE [leave(heard, "Respond", t, [inquiry |-> "inquiry"]) EXCEPT
                !.answer = said,
                !.sunk = IF rec.stream /\ Len(said) > 0 THEN Append(@, said) ELSE @,
                !.contexts = Append(@, [answer |-> said]),
                !.pc = "returned"]

\* respond after its chat call: leave, return; the pipeline's promise resolves.
\* chat throws on a non-2xx answer before it touches the handler; otherwise the
\* completion arrives as one delta, which chat trims, passes to the handler
\* when it is not empty, and returns
respondReturn(rec, llm, t) ==
    LET heard == heardBy(rec, llm, rec.stream)
        said == trim(llm.content)
    IN  IF ~llm.ok THEN throw(heard)
        ELSE [leave(heard, "Respond", t, [inquiry |-> "inquiry"]) EXCEPT
                !.answer = said,
                !.contexts = Append(@, spread([answer |-> said], rec.contexts[3])),
                !.pc = "returned"]

\* simplify(stages): the events at odd indices, with the time since the one before
simplify(stages) ==
    [j \in 1..(Len(stages) \div 2) |->
        [name |-> stages[2 * j].name,
         kind |-> stages[2 * j].kind,
         timestamp |-> stages[2 * j].timestamp,
         fields |-> stages[2 * j].fields,
         duration |-> stages[2 * j].timestamp - stages[2 * j - 1].timestamp]]

(***************************************************************************)
(* The front-ends: interact (terminal), serve (HTTP), poll (Telegram)      *)
(***************************************************************************)
FrontEnds == {"terminal", "http", "telegram"}

\* the inquiries of a session, numbered in order of arrival
Runs == {1, 2}

\* the history entry the handler pushes once the pipeline has resolved; only
\* poll stores the references
historyEntry(frontEnd, r, rec, t) ==
    IF frontEnd = "telegram"
    THEN [inquiry |-> r, result |-> rec.result, references |-> rec.references,
          answer |-> rec.answer, duration |-> t - rec.start, stages |-> rec.stages]
    ELSE [inquiry |-> r, result |-> rec.result,
          answer |-> rec.answer, duration |-> t - rec.start, stages |-> rec.stages]

\* display = push(display, text): what push returns without its output
kept(next) == [buffer |-> next.buffer, refs |-> next.refs]

\* interact's display once the stream delegate has received the texts
RECURSIVE displayed(_, _)
displayed(disp, texts) ==
    IF Len(texts) = 0 THEN disp
    ELSE displayed(kept(push(disp, Head(texts))), Tail(texts))

\* the urls refs.forEach lists in interact, in the order of refs
listing(refs, references) == [i \in 1..Len(refs) |-> urlOf(references[refs[i]])]

\* a plausible slip: the handler records the inquiry in a finally block, so a
\* rejected pipeline leaves an entry too
afterPipelineAlwaysPush(frontEnd, h, hv, tg, r, rec, t) ==
    IF rec.pc \in {"returned", "failed"}
    THEN LET target == IF frontEnd = "telegram" THEN rec.history ELSE hv
         IN  [heap |-> [h EXCEPT ![target] = Append(@, historyEntry(frontEnd, r, rec, t))],
              tgState |-> IF frontEnd = "telegram" THEN rec.history ELSE tg,
              rec |-> IF rec.pc = "returned" THEN [rec EXCEPT !.pc = "done"] ELSE rec]
    ELSE [heap |-> h, tgState |-> tg, rec |-> rec]

\* how the handler ends once the pipeline has resolved, and what it gives out:
\* interact lists the sources of refs, and destructuring undefined throws
listedBy(refs, references) ==
    IF ~listed(refs, references) THEN [pc |-> "done", reply |-> <<>>]
    ELSE IF unlisted(refs, references) # {} THEN [pc |-> "threw", reply |-> <<>>]
    ELSE [pc |-> "done", reply |-> listing(refs, references)]

\* poll sends what format returns, if it returns
sentBy(out) ==
    IF out.outcome = "returned" THEN [pc |-> "done", reply |-> <<out.buffer>>]
    ELSE IF out.outcome = "threw" THEN [pc |-> "threw", reply |-> <<>>]
    ELSE [pc |-> "hung", reply |-> <<>>]

\* the history push and the end of the handler: interact pushes after the
\* listing, to the array `history` is bound to now; serve pushes to that array;
\* poll pushes to the array it read at the start and stores it in
\* state[chat.id] before it calls format
pushedBy(frontEnd, h, hv, tg, entry, rec, end) ==
    IF frontEnd = "terminal" /\ end.pc = "threw"
    THEN [heap |-> h, tgState |-> tg, rec |-> [rec EXCEPT !.pc = "threw"]]
    ELSE LET target == IF frontEnd = "telegram" THEN rec.history ELSE hv
         IN  [heap |-> [h EXCEPT ![target] = Append(@, entry)],
              tgState |-> IF frontEnd = "telegram" THEN rec.history ELSE tg,
              rec |-> [rec EXCEPT !.pc = end.pc, !.reply = end.reply]]

\* the handler after `await pipeline(context)`: it runs only when the pipeline
\* resolved. A handler that throws on the way stops there (pc "threw"), and
\* one whose format never returns keeps the process (pc "hung")
afterPipeline(frontEnd, h, hv, tg, r, rec, t) ==
    IF rec.pc # "returned" THEN [heap |-> h, tgState |-> tg, rec |-> rec]
    ELSE pushedBy(frontEnd, h, hv, tg, historyEntry(frontEnd, r, rec, t), rec,
                  IF frontEnd = "terminal"
                  THEN listedBy(displayed(NewDisplay, rec.sunk).refs, rec.references)
                  ELSE IF frontEnd = "telegram"
                  THEN sentBy(format(rec.answer, rec.references))
                  ELSE [pc |-> "done", reply |-> <<>>])

\* the run goes on to its next await, or settles and the handler finishes
Settle(r, rec) ==
    \E out \in {afterPipeline(fe, heap, historyVar, tgState, r, rec, now)} :
        /\ heap' = out.heap
        /\ tgState' = out.tgState
        /\ run' = [run EXCEPT ![r] = out.rec]

\* interact asks the next question only from the end of the handler before
\* (loop && qa()), which a rejected pipeline never reaches
qaArmed == \A q \in Runs : run[q].pc \in {"new", "done"}

\* the process runs its handlers unless one of them never returns
Alive == \A q \in Runs : run[q].pc # "hung"

(***************************************************************************)
(* What the LLM and the search endpoint may answer                         *)
(***************************************************************************)
\* message contents of the chat endpoint for reason's calls
ReasonContents ==
    { "English.\nTHOUGHT: t\nKEYPHRASES: k.\nOBSERVATION: o\nTOPIC: x",
      "English.\nTHOUGHT: t",
      "k2\nTOPIC: y",
      "" }

\* message contents of the chat endpoint for respond's call
Answers == {"", " ok [citation:1]"}

LLMResponses(contents) ==
    {[ok |-> FALSE, content |-> ""]} \cup {[ok |-> TRUE, content |-> c] : c \in contents}

\* the most hits a search response holds
MaxHits == 4

SearchResponses ==
    {[seen |-> TRUE, ok |-> o, json |-> FALSE, hits |-> 0] : o \in BOOLEAN}
        \cup {[seen |-> TRUE, ok |-> FALSE, json |-> TRUE, hits |-> 0]}
        \cup {[seen |-> TRUE, ok |-> TRUE, json |-> TRUE, hits |-> n] : n \in 0..MaxHits}

\* every answer of the endpoints the model considers
FullEnv == [reason |-> ReasonContents, answers |-> Answers, search |-> SearchResponses]

\* the answers that decide a run's path: reason with and without keyphrases, a
\* search that fails, finds nothing or finds one hit, one answer of respond
SmallEnv ==
    [reason |-> {"English.\nTHOUGHT: t\nKEYPHRASES: k.\nOBSERVATION: o\nTOPIC: x", ""},
     answers |-> {" ok [citation:1]"},
     search |-> {http \in SearchResponses : http.json /\ http.hits <= 1}]

\* how far the clock runs
MaxClock == 2

\* how many /reset commands a session handles
MaxResets == 1

(***************************************************************************)
(* Actions                                                                 *)
(***************************************************************************)
\* no /review command was given yet
NoReview == [asked |-> FALSE, found |-> FALSE, shown |-> <<>>, latest |-> 0,
             failed |-> FALSE]

PipeStart ==
    /\ fe \in FrontEnds
    /\ now = 0
    /\ heap = IF fe = "telegram" THEN <<>> ELSE <<(<<>>)>>
    /\ historyVar = IF fe = "telegram" THEN 0 ELSE 1
    /\ tgState = 0
    /\ resets = 0
    /\ run = [r \in Runs |-> NewRun]
    /\ reviewed = NoReview

PipeOff ==
    /\ fe = "off"
    /\ now = 0
    /\ heap = <<>>
    /\ historyVar = 0
    /\ tgState = 0
    /\ resets = 0
    /\ run = [r \in Runs |-> NewRun]
    /\ reviewed = NoReview

\* Date.now() moves on between two steps
Tick ==
    /\ fe # "off"
    /\ now < MaxClock
    /\ now' = now + 1
    /\ UNCHANGED <<fe, reviewed, heap, historyVar, tgState, resets, run, codecVars, chatVars, citeVars, regexVars, evalVars, formatVars>>

\* the delegates a front-end puts in the context
delegatesOf(frontEnd) ==
    IF frontEnd = "telegram" THEN {"enter", "leave"} ELSE {"enter", "leave", "stream"}

\* an inquiry arrives: the handler builds stages, delegates and context and
\* calls the pipeline, which runs reason up to its first chat call
Inquire(r) ==
    /\ fe # "off"
    /\ Alive
    /\ run[r].pc = "new"
    /\ \A q \in Runs : q < r => run[q].pc # "new"
    /\ fe = "terminal" => qaArmed
    /\ LET fresh == fe = "telegram" /\ tgState = 0
           h == IF fe # "telegram" THEN historyVar
                ELSE IF fresh THEN Len(heap) + 1 ELSE tgState
       IN  /\ heap' = IF fresh THEN Append(heap, <<>>) ELSE heap
           /\ run' = [run EXCEPT ![r] =
                        reasonStart([NewRun EXCEPT
                                        !.history = h, !.start = now,
                                        !.epoch = resets,
                                        !.stream = (fe # "telegram"),
                                        !.contexts = <<[inquiry |-> inquiryOf(r),
                                                        history |-> h,
                                                        delegates |-> delegatesOf(fe)]>>],
                                    heap'[h], now)]
    /\ UNCHANGED <<fe, reviewed, now, historyVar, tgState, resets, codecVars, chatVars, citeVars, regexVars, evalVars, formatVars>>

\* reason's first chat call returns
ReasonReturn(r, env) ==
    /\ run[r].pc = "reason1"
    /\ Alive
    /\ \E llm \in LLMResponses(env.reason) : Settle(r, reasonReturn(run[r], llm, now))
    /\ UNCHANGED <<fe, reviewed, now, historyVar, resets, codecVars, chatVars, citeVars, regexVars, evalVars, formatVars>>

\* reason's second chat call returns
ReasonRetryReturn(r, env) ==
    /\ run[r].pc = "reason2"
    /\ Alive
    /\ \E llm \in LLMResponses(env.reason) :
          Settle(r, reasonRetryReturn(run[r], llm, now))
    /\ UNCHANGED <<fe, reviewed, now, historyVar, resets, codecVars, chatVars, citeVars, regexVars, evalVars, formatVars>>

\* search's fetch returns
SearchReturn(r, env) ==
    /\ run[r].pc = "search"
    /\ Alive
    /\ \E http \in env.search : Settle(r, searchReturn(run[r], http, now))
    /\ UNCHANGED <<fe, reviewed, now, historyVar, resets, codecVars, chatVars, citeVars, regexVars, evalVars, formatVars>>

\* respond's chat call returns; when it succeeds the pipeline resolves and the
\* handler pushes the history entry
RespondReturn(r, env) ==
    /\ run[r].pc = "respond"
    /\ Alive
    /\ \E llm \in LLMResponses(env.answers) : Settle(r, respondReturn(run[r], llm, now))
    /\ UNCHANGED <<fe, reviewed, now, historyVar, resets, codecVars, chatVars, citeVars, regexVars, evalVars, formatVars>>

\* the /reset command: a new empty array
Reset ==
    /\ fe # "off"
    /\ Alive
    /\ resets < MaxResets
    /\ fe = "terminal" => qaArmed
    /\ resets' = resets + 1
    /\ heap' = Append(heap, <<>>)
    /\ IF fe = "telegram"
       THEN tgState' = Len(heap) + 1 /\ UNCHANGED historyVar
       ELSE historyVar' = Len(heap) + 1 /\ UNCHANGED tgState
    /\ UNCHANGED <<fe, reviewed, now, run, codecVars, chatVars, citeVars, regexVars, evalVars, formatVars>>

RunStep(r, env) ==
    \/ Inquire(r)
    \/ ReasonReturn(r, env)
    \/ ReasonRetryReturn(r, env)
    \/ SearchReturn(r, env)
    \/ RespondReturn(r, env)

\* a run that went through the three stages without a retry, as the record of
\* inquiry n stood when its pipeline resolved
PastRunA(frontEnd, n) ==
    LET context == [inquiry |-> inquiryOf(n), history |-> 1,
                    delegates |-> delegatesOf(frontEnd)]
        started == reasonStart([NewRun EXCEPT !.history = 1,
                                              !.stream = (frontEnd # "telegram"),
                                              !.contexts = <<context>>], <<>>, 0)
        reasoned == reasonReturn(started,
                        [ok |-> TRUE,
                         content |-> "English.\nTHOUGHT: t\nKEYPHRASES: k.\nOBSERVATION: o\nTOPIC: x"],
                        0)
        searched == searchReturn(reasoned,
                        [seen |-> TRUE, ok |-> TRUE, json |-> TRUE, hits |-> 1], 0)
    IN  respondReturn(searched, [ok |-> TRUE, content |-> " ok [citation:1]"], 0)

\* a run whose reason needed its retry
PastRunB(frontEnd, n) ==
    LET context == [inquiry |-> inquiryOf(n), history |-> 1,
                    delegates |-> delegatesOf(frontEnd)]
        started == reasonStart([NewRun EXCEPT !.history = 1,
                                              !.stream = (frontEnd # "telegram"),
                                              !.contexts = <<context>>], <<>>, 0)
        retried == reasonReturn(started, [ok |-> TRUE, content |-> ""], 0)
        reasoned == reasonRetryReturn(retried, [ok |-> TRUE, content |-> "k2\nTOPIC: y"], 0)
        searched == searchReturn(reasoned,
                        [seen |-> TRUE, ok |-> TRUE, json |-> TRUE, hits |-> 1], 0)
    IN  respondReturn(searched, [ok |-> TRUE, content |-> " ok [citation:1]"], 0)

\* the longest history a session starts from
MaxHistory == 4

\* the inquiries before the session are numbered after those of the session
PastBase == 2 * Cardinality(Runs)

\* the histories a front-end may hold when the next inquiry arrives: one entry
\* for each inquiry answered so far, with and without a retry by turns
Histories(frontEnd) ==
    UNION {{[i \in 1..n |->
                historyEntry(frontEnd, PastBase + i,
                             IF (i + first) % 2 = 0 THEN PastRunA(frontEnd, PastBase + i)
                             ELSE PastRunB(frontEnd, PastBase + i), 0)]
              : first \in {0, 1}}
           : n \in 0..MaxHistory}

\* a session that has answered up to MaxHistory inquiries
HistoryStart ==
    /\ fe \in FrontEnds
    /\ now = 0
    /\ \E hist \in Histories(fe) :
          /\ heap = IF fe = "telegram" /\ Len(hist) = 0 THEN <<>> ELSE <<hist>>
          /\ tgState = IF fe = "telegram" /\ Len(hist) > 0 THEN 1 ELSE 0
    /\ historyVar = IF fe = "telegram" THEN 0 ELSE 1
    /\ resets = 0
    /\ run = [r \in Runs |-> NewRun]
    /\ reviewed = NoReview

\* a completion without keyphrases whose thought quotes a later marker
MarkerInThought == "English.\nTHOUGHT: a OBSERVATION: b\nOBSERVATION: c"

\* the answers of SmallEnv, and that completion
HistoryEnv == [SmallEnv EXCEPT !.reason = @ \cup {MarkerInThought}]

\* the /review command: the stages of the last entry of the history, simplified.
\* latest and failed record the inquiry made last before the command and
\* whether its pipeline had rejected; the code keeps no such record, and
\* nothing in the model of the code reads it
Review ==
    /\ fe # "off"
    /\ Alive
    /\ ~reviewed.asked
    /\ fe = "terminal" => qaArmed
    /\ LET history == IF fe # "telegram" THEN heap[historyVar]
                      ELSE IF tgState = 0 THEN <<>> ELSE heap[tgState]
           started == {r \in Runs : run[r].pc # "new"}
           latest == IF started = {} THEN 0 ELSE MaxOf(started)
       IN  reviewed' =
              [asked |-> TRUE,
               found |-> Len(history) > 0,
               shown |-> IF Len(history) > 0
                         THEN simplify(history[Len(history)].stages) ELSE <<>>,
               latest |-> latest,
               failed |-> latest # 0 /\ run[latest].pc = "failed"]
    /\ UNCHANGED <<fe, now, heap, historyVar, tgState, resets, run,
                   codecVars, chatVars, citeVars, regexVars, evalVars, formatVars>>

\* the calls of a run that are under way return: the chat calls of reason and
\* respond, the fetch of search
Returns(r, env) ==
    \/ ReasonReturn(r, env)
    \/ ReasonRetryReturn(r, env)
    \/ SearchReturn(r, env)
    \/ RespondReturn(r, env)

\* one inquiry, the clock stopped
NextLive == RunStep(1, FullEnv)

\* the next inquiry of that session, and a review
NextHistory == RunStep(1, HistoryEnv) \/ Review

\* one inquiry, with the clock running
Next == Tick \/ RunStep(1, FullEnv)

\* a session: inquiries as the front-end admits them, and /reset
NextFront == Reset \/ \E r \in Runs : RunStep(r, SmallEnv)

\* answers that cite a source the search did not return, the source 0, or
\* no number at all
StrayCitations == {"[citation:2]", "[citation:0]", "x[citation:y]"}

\* the answers of SmallEnv, and those
ListingEnv == [SmallEnv EXCEPT !.answers = @ \cup StrayCitations]

\* inquiries as the front-end admits them, answered with such citations
NextListing == \E r \in Runs : RunStep(r, ListingEnv)

(***************************************************************************)
(* interact's citation rewriter over one streamed answer                   *)
(***************************************************************************)
\* answers the LLM streams
CiteTexts ==
    { "foo[citation:3] bar[citation:1] baz[citation:3]",
      "The lake [citation:2][citation:5] is in Trinidad. [citation:2] \n",
      "p[citation:12] q[citation:1]",
      "x [citation:7]. " }

\* the text as one chunk, cut at one or two places, or character by character
Chunkings(t) ==
    {<<t>>}
        \cup {<<substring(t, 0, a), substrFrom(t, a)>> : a \in 1..(Len(t) - 1)}
        \cup {<<substring(t, 0, c[1]), substring(t, c[1], c[2]), substrFrom(t, c[2])>> :
                c \in {d \in (1..(Len(t) - 1)) \X (1..(Len(t) - 1)) : d[1] < d[2]}}
        \cup {[i \in 1..Len(t) |-> charAt(t, i - 1)]}

CiteStart ==
    /\ citePc = "streaming"
    /\ citeText \in CiteTexts
    /\ pieces \in Chunkings(citeText)
    /\ display = NewDisplay
    /\ written = ""

CiteOff ==
    /\ citePc = "off"
    /\ citeText = ""
    /\ pieces = <<>>
    /\ display = NewDisplay
    /\ written = ""

\* the stream delegate: display = push(display, text)
CitePush ==
    /\ citePc = "streaming"
    /\ Len(pieces) > 0
    /\ LET next == push(display, Head(pieces))
       IN  /\ display' = [buffer |-> next.buffer, refs |-> next.refs]
           /\ written' = written \o next.output
    /\ pieces' = Tail(pieces)
    /\ UNCHANGED <<citePc, citeText, codecVars, chatVars, pipeVars, regexVars, evalVars, formatVars>>

\* after the pipeline: display = flush(display)
CiteFlush ==
    /\ citePc = "streaming"
    /\ Len(pieces) = 0
    /\ LET next == flush(display)
       IN  /\ display' = [buffer |-> next.buffer, refs |-> next.refs]
           /\ written' = written \o next.output
    /\ citePc' = "flushed"
    /\ UNCHANGED <<citeText, pieces, codecVars, chatVars, pipeVars, regexVars, evalVars, formatVars>>

CiteNext == CitePush \/ CiteFlush

(***************************************************************************)
(* The test runner: regexify                                               *)
(***************************************************************************)
\* filler(text, index): the index of the next '/', text.length when none
RECURSIVE filler(_, _)
filler(txt, index) ==
    IF index < Len(txt) /\ charAt(txt, index) # "/" THEN filler(txt, index + 1)
    ELSE index

\* a plausible slip: the while loop of pattern stops at any '/'
RECURSIVE patternLoopAnySlash(_, _)
patternLoopAnySlash(txt, i) ==
    IF i < Len(txt) /\ ~(charAt(txt, i) = "/")
    THEN patternLoopAnySlash(txt, i + 1)
    ELSE i

\* the while loop of pattern: stops at a '/' that no backslash precedes
RECURSIVE patternLoop(_, _)
patternLoop(txt, i) ==
    IF i < Len(txt) /\ ~(charAt(txt, i) = "/" /\ charAt(txt, i - 1) # "\\")
    THEN patternLoop(txt, i + 1)
    ELSE i

\* pattern(text, index)
pattern(txt, index) ==
    IF charAt(txt, index) = "/" THEN patternLoop(txt, index + 1) ELSE index

\* the number of backslashes s ends with
RECURSIVE trailingBackslashes(_)
trailingBackslashes(s) ==
    IF endsWith(s, "\\") THEN 1 + trailingBackslashes(substring(s, 0, Len(s) - 1)) ELSE 0

\* RegExp(source, 'gi') throws a SyntaxError when the source is not a pattern;
\* over letters, spaces, '/' and '\' that is a source ending in a lone backslash
isPattern(source) == trailingBackslashes(source) % 2 = 0

RegExp(source, flags) == [source |-> source, flags |-> flags]

\* the while loop of regexify from position pos on
RECURSIVE regexifyLoop(_, _, _)
regexifyLoop(expr, pos, found) ==
    IF pos < Len(expr)
    THEN LET start == filler(expr, pos)
             next == pattern(expr, start)
         IN  IF next > start /\ next < Len(expr)
             THEN LET sub == substring(expr, start + 1, next)
                  IN  IF isPattern(sub)
                      THEN regexifyLoop(expr, next + 1, [found EXCEPT
                              !.regexes = Append(@, RegExp(sub, "gi"))])
                      ELSE [found EXCEPT !.threw = TRUE]
             ELSE found
    ELSE found

\* regexify(match)
regexify(expr) ==
    LET found == regexifyLoop(expr, 0, [threw |-> FALSE, regexes |-> <<>>])
    IN  IF found.threw THEN found
        ELSE IF Len(found.regexes) = 0
        THEN IF isPattern(expr)
             THEN [threw |-> FALSE, regexes |-> <<RegExp(expr, "gi")>>]
             ELSE [threw |-> TRUE, regexes |-> <<>>]
        ELSE found

\* the longest expected string made of the characters below
MaxExpected == 5

ExpectedChars == <<"a", " ", "/", "\\">>

RECURSIVE stringOf(_)
stringOf(cs) == IF Len(cs) = 0 THEN "" ELSE ExpectedChars[Head(cs)] \o stringOf(Tail(cs))

ExpectedStrings ==
    {stringOf(cs) : cs \in UNION {[1..n -> 1..Len(ExpectedChars)] : n \in 0..MaxExpected}}
        \cup {"capital /Paris/ and /France/", "Paris"}

RegexStart ==
    /\ regexPc = "input"
    /\ expected \in ExpectedStrings
    /\ regexes = <<>>

RegexOff ==
    /\ regexPc = "off"
    /\ expected = ""
    /\ regexes = <<>>

\* evaluate calls regexify(expected)
Regexify ==
    /\ regexPc = "input"
    /\ LET out == regexify(expected)
       IN  /\ regexPc' = IF out.threw THEN "threw" ELSE "done"
           /\ regexes' = out.regexes
    /\ UNCHANGED <<expected, codecVars, chatVars, pipeVars, citeVars, evalVars, formatVars>>

RegexNext == Regexify

(***************************************************************************)
(* The test runner: evaluate over the lines of one test file               *)
(***************************************************************************)
\* match(text, regexes) for sources made of letters, digits and blanks, which
\* stand for themselves: regex.exec finds the source where the text holds it
matches(target, res) ==
    LET Found(regex) == indexOf(target, regex.source) >= 0
    IN  SelectSeq(res, Found)

\* evaluate's local trim: outer blanks and a '#' comment removed
trimLine(input) ==
    LET txt == trim(input)
        marker == indexOf(txt, "#")
    IN  IF marker >= 0 THEN trim(substring(txt, 0, marker)) ELSE txt

\* history, total and failures as evaluate starts
NewEval == [history |-> <<>>, total |-> 0, failures |-> 0, exited |-> FALSE, status |-> 0]

\* process.exit(code): the status is the low byte of the code
exit(st, code) == [st EXCEPT !.exited = TRUE, !.status = code % 256]

\* a plausible slip: a mismatch is reported and not counted
expectNoCount(st, flag, target, content) ==
    LET out == regexify(content)
    IN  IF out.threw THEN exit(st, -1)
        ELSE IF Len(matches(target, out.regexes)) = Len(out.regexes) THEN st
        ELSE IF flag THEN exit(st, -1) ELSE st

\* the check of an expectation against a target; an error of regexify reaches
\* evaluate's catch, which exits
expect(st, flag, target, content) ==
    LET out == regexify(content)
    IN  IF out.threw THEN exit(st, -1)
        ELSE IF Len(matches(target, out.regexes)) = Len(out.regexes) THEN st
        ELSE LET failed == [st EXCEPT !.failures = @ + 1]
             IN  IF flag THEN exit(failed, -1) ELSE failed

\* history.slice(-1).pop() of an empty history, and a pipeline that rejected
NoEntry == [ok |-> FALSE, answer |-> "", keyphrases |-> "", topic |-> ""]

\* handle(line), with the outcome of the pipeline a User line starts
handle(st, flag, line, outcome) ==
    LET fields == IF Len(line) > 0 THEN split(line, ":") ELSE <<>>
    IN  IF Len(fields) < 2 THEN st
        ELSE LET role == fields[1]
                 content == trim(substrFrom(line, Len(role) + 1))
                 last == IF Len(st.history) > 0 THEN st.history[Len(st.history)]
                         ELSE NoEntry
             IN  IF role = "Story" THEN [st EXCEPT !.history = <<>>]
                 ELSE IF role = "User"
                 THEN IF ~outcome.ok THEN exit(st, -1)
                      ELSE [st EXCEPT !.history = Append(@, outcome), !.total = @ + 1]
                 ELSE IF role = "Assistant"
                 THEN IF Len(st.history) = 0 THEN exit(st, -1)
                      ELSE expect(st, flag, last.answer, content)
                 ELSE IF role \in {"Pipeline.Reason.Keyphrases", "Pipeline.Reason.Topic"}
                 THEN IF Len(st.history) = 0 THEN exit(st, -1)
                      ELSE expect(st, flag,
                                  IF role = "Pipeline.Reason.Keyphrases"
                                  THEN last.keyphrases ELSE last.topic,
                                  content)
                 ELSE exit(st, -1)

\* after the last line: success leaves the status at 0, failures exit with -1
finish(st) ==
    IF st.failures <= 0 THEN [st EXCEPT !.exited = TRUE, !.status = 0]
    ELSE exit(st, -1)

\* the lines a test file is made of
TestLines ==
    { "Story: s",
      " User: q # asked",
      "Assistant: ok",
      "Assistant: /ok/ and /no/",
      "Assistant: a\\",
      "Pipeline.Reason.Topic: x",
      "Pipeline.Reason.Keyphrases: no",
      "Foo: bar",
      "# a note" }

\* the longest test file
MaxLines == 3

\* what the pipeline of a User line may come to: a result, or a rejection
Outcomes ==
    { [ok |-> TRUE, answer |-> "ok [citation:1]", keyphrases |-> "k", topic |-> "x"],
      [ok |-> TRUE, answer |-> "", keyphrases |-> "no", topic |-> "y"],
      NoEntry }

EvalStart ==
    /\ evalPc = "running"
    /\ fileLines \in UNION {[1..n -> TestLines] : n \in 0..MaxLines}
    /\ cursor = 0
    /\ failExit \in BOOLEAN
    /\ ev = NewEval
    /\ handled = <<>>

EvalOff ==
    /\ evalPc = "off"
    /\ fileLines = <<>>
    /\ cursor = 0
    /\ failExit = FALSE
    /\ ev = NewEval
    /\ handled = <<>>

\* await handle(lines[i]) for the next line
EvalHandle ==
    /\ evalPc = "running"
    /\ cursor < Len(fileLines)
    /\ \E outcome \in Outcomes :
          LET line == trimLine(fileLines[cursor + 1])
              next == handle(ev, failExit, line, outcome)
              started == startsWith(line, "User:")
          IN  /\ started \/ outcome = NoEntry
              /\ ev' = next
              /\ evalPc' = IF next.exited THEN "exited" ELSE "running"
              /\ handled' = Append(handled,
                     [last |-> IF Len(ev.history) > 0 THEN ev.history[Len(ev.history)]
                               ELSE NoEntry,
                      rejected |-> started /\ ~outcome.ok])
    /\ cursor' = cursor + 1
    /\ UNCHANGED <<fileLines, failExit, codecVars, chatVars, pipeVars, citeVars, regexVars,
                   formatVars>>

\* the end of the file
EvalFinish ==
    /\ evalPc = "running"
    /\ cursor = Len(fileLines)
    /\ ev' = finish(ev)
    /\ evalPc' = "exited"
    /\ UNCHANGED <<fileLines, cursor, failExit, handled, codecVars, chatVars, pipeVars,
                   citeVars, regexVars, formatVars>>

EvalNext == EvalHandle \/ EvalFinish

(***************************************************************************)
(* poll's format, one turn of its loop at a time                           *)
(***************************************************************************)
\* answers format may be given
FormatTexts ==
    { "a[citation:1]b[citation:2]",
      "[citation:2][citation:2]",
      "[citation:3][citation:1]",
      "p[citation:12]q",
      "k[citation:5]",
      "z[citation:0]",
      "[citation:1",
      "x[citation:y]",
      "[citation:1][citation:]",
      "end[citation:",
      "[1]",
      "none" }

FormatStart ==
    /\ formatPc = "scanning"
    /\ \E txt \in FormatTexts : formatted = NewFormat(txt)
    /\ \E n \in 0..MaxHits : sources = referencesOf(n)
    /\ turns = 0

FormatOff ==
    /\ formatPc = "off"
    /\ formatted = NewFormat("")
    /\ sources = <<>>
    /\ turns = 0

\* one turn of while (true): break, or rewrite the first marker, or neither
FormatTurn ==
    /\ formatPc = "scanning"
    /\ \E index \in {indexOf(formatted.buffer, "[citation:")} :
          formatted' = formatAt(formatted, index)
    /\ formatPc' = IF formatted'.scanning THEN "scanning" ELSE "listing"
    /\ turns' = 1 - turns
    /\ UNCHANGED <<sources, codecVars, chatVars, pipeVars, citeVars, regexVars, evalVars>>

\* after the loop: the list of sources, and return
FormatList ==
    /\ formatPc = "listing"
    /\ LET out == formatList(formatted, sources)
       IN  /\ formatPc' = out.outcome
           /\ formatted' = [formatted EXCEPT !.buffer = out.buffer]
    /\ UNCHANGED <<sources, turns, codecVars, chatVars, pipeVars, citeVars, regexVars, evalVars>>

FormatNext == FormatTurn \/ FormatList

(***************************************************************************)
(* Specifications                                                          *)
(***************************************************************************)
\* construct and deconstruct on bounded inputs
InitCodec == CodecStart /\ ChatOff /\ PipeOff /\ CiteOff /\ RegexOff /\ EvalOff /\ FormatOff

SpecCodec == InitCodec /\ [][CodecNext]_vars

\* the streaming path of chat on bounded transcripts
InitChat == ChatStart /\ CodecOff /\ PipeOff /\ CiteOff /\ RegexOff /\ EvalOff /\ FormatOff

SpecChat == InitChat /\ [][ChatNext]_vars

Init == PipeStart /\ CodecOff /\ ChatOff /\ CiteOff /\ RegexOff /\ EvalOff /\ FormatOff

\* one inquiry through the pipeline, in any front-end, with time passing
Spec == Init /\ [][Next]_vars

\* a session of a front-end: concurrent inquiries and /reset, the clock stopped
SpecFront == Init /\ [][NextFront]_vars

\* one inquiry whose calls all return in the end: a call under way is answered
SpecLive == Init /\ [][NextLive]_vars /\ WF_vars(Returns(1, FullEnv))

\* a session whose answers cite sources that are not there
SpecListing == Init /\ [][NextListing]_vars

\* one inquiry of a session that has a history
InitHistory == HistoryStart /\ CodecOff /\ ChatOff /\ CiteOff /\ RegexOff /\ EvalOff /\ FormatOff

SpecHistory == InitHistory /\ [][NextHistory]_vars

\* the citation rewriter over one streamed answer
InitCite == CiteStart /\ CodecOff /\ ChatOff /\ PipeOff /\ RegexOff /\ EvalOff /\ FormatOff

SpecCite == InitCite /\ [][CiteNext]_vars

\* regexify on bounded expected strings
InitRegex == RegexStart /\ CodecOff /\ ChatOff /\ PipeOff /\ CiteOff /\ EvalOff /\ FormatOff

\* evaluate over bounded test files
InitEval ==
    EvalStart /\ CodecOff /\ ChatOff /\ PipeOff /\ CiteOff /\ RegexOff /\ FormatOff

SpecEval == InitEval /\ [][EvalNext]_vars

SpecRegex == InitRegex /\ [][RegexNext]_vars

\* format on bounded answers and references
InitFormat ==
    FormatStart /\ CodecOff /\ ChatOff /\ PipeOff /\ CiteOff /\ RegexOff /\ EvalOff

\* format runs on: a call that can take a step takes it
SpecFormat == InitFormat /\ [][FormatNext]_vars /\ WF_vars(FormatNext)

(***************************************************************************)
(* Claims                                                                  *)
(***************************************************************************)
\* a value construct writes on one line and deconstruct reads back unchanged
CleanValue(v) ==
    /\ v # ""
    /\ trim(v) = v
    /\ indexOf(v, "\n") < 0
    /\ \A i \in 1..Len(PREDEFINED_KEYS) : indexOf(v, PREDEFINED_KEYS[i] \o ":") < 0

\* C3 as stated: for every mapping m of non-empty values over the recognized
\* keys, deconstruct(construct(m)) holds every key of m with the value m gave it.
C3_RoundTripAnyMapping ==
    codecPc = "parsed" => \A k \in DOMAIN kv : k \in DOMAIN parts /\ parts[k] = kv[k]

\* C3 amended: when m has a topic and every value of m is a single line without
\* leading or trailing white space and without a marker ("KEY:") inside,
\* deconstruct(construct(m)) holds every key of m with the value m gave it.
C3_RoundTripWithTopic ==
    (/\ codecPc = "parsed"
     /\ "topic" \in DOMAIN kv
     /\ \A k \in DOMAIN kv : CleanValue(kv[k]))
        => \A k \in DOMAIN kv : k \in DOMAIN parts /\ parts[k] = kv[k]

C3_Witness ==
    /\ codecPc = "parsed"
    /\ DOMAIN kv = CodecKeys
    /\ \A k \in DOMAIN kv : CleanValue(kv[k])
    /\ kv["thought"] = "b c"
    /\ parts = kv

\* C4 as stated: with more than one "TOPIC:" marker in the text, the topic is the
\* trimmed text after the last occurrence of "TOPIC:".
C4_TopicIsAfterLastMarker ==
    (codecPc = "parsed" /\ Cardinality(occurrences(text, "TOPIC:")) > 1)
        => /\ "topic" \in DOMAIN parts
           /\ parts["topic"] = trim(substrFrom(text, lastIndexOf(text, "TOPIC:") + 6))


\* a transcript whose only "data: [DONE]" line is the one that ends it
ValidTranscript(fs) == \A i \in 1..Len(fs) : fs[i].kind # "done"

\* the non-empty delta contents of a frame sequence, in order
RECURSIVE nonEmptyDeltas(_)
nonEmptyDeltas(fs) ==
    IF Len(fs) = 0 THEN <<>>
    ELSE (IF Head(fs).kind = "delta" /\ Head(fs).content # ""
          THEN <<Head(fs).content>> ELSE <<>>) \o nonEmptyDeltas(Tail(fs))

\* C1 as stated: however a valid transcript is split into reads, chat returns the
\* answer, and passes the sink the concatenated text, of the single-read run.
C1_SplitSameAsWhole ==
    (chatPc = "done" /\ streams(call) /\ ValidTranscript(frames))
        => LET whole == streamAll(StreamStart, <<transcriptOf(frames)>>)
           IN  /\ answer = whole.answer
               /\ join(emitted, "") = join(whole.emitted, "")

\* C2 as stated: the streamed answer is the concatenation of the non-empty delta
\* contents with only the leading white space of the first of them removed.
C2_OnlyLeadingSpaceOfFirstDeltaRemoved ==
    (chatPc = "done" /\ streams(call) /\ ValidTranscript(frames))
        => LET ds == nonEmptyDeltas(frames)
           IN  answer = IF Len(ds) = 0 THEN ""
                        ELSE trimStart(ds[1]) \o join(Tail(ds), "")


StageOrder == <<"Reason", "Search", "Respond">>

\* C5 as stated: in the recorded stage events of a run every enter(X) is followed
\* by leave(X) before any further enter, and the pairs come in the order Reason,
\* Search, Respond.
C5_EnterLeavePairs ==
    \A r \in Runs :
        LET st == run[r].stages
        IN  /\ Len(st) <= 2 * Len(StageOrder)
            /\ \A i \in 1..Len(st) :
                  IF i % 2 = 1
                  THEN st[i].kind = "enter" /\ st[i].name = StageOrder[(i + 1) \div 2]
                  ELSE st[i].kind = "leave" /\ st[i].name = st[i - 1].name

\* C6 as stated: for a run that completed, the event list has even length and
\* simplify returns one entry per stage, Reason, Search, Respond in that order,
\* each the stage's leave event with the time since the stage's enter event,
\* which is not negative.
C6_SimplifyOneEntryPerStage ==
    \A r \in Runs :
        run[r].pc = "done" =>
            LET st == run[r].stages
                sim == simplify(st)
            IN  /\ Len(st) % 2 = 0
                /\ Len(sim) = Len(StageOrder)
                /\ \A j \in 1..Len(sim) :
                      /\ j <= Len(StageOrder)
                      /\ sim[j].name = StageOrder[j]
                      /\ sim[j].kind = "leave"
                      /\ st[2 * j - 1].kind = "enter"
                      /\ st[2 * j - 1].name = sim[j].name
                      /\ sim[j].duration >= 0

InProgress == {"reason1", "reason2", "search", "respond"}

\* the entries of the history arrays belong to inquiries whose pipeline resolved,
\* and hold the events up to leave('Respond')
C7_EntriesAreComplete ==
    \A a \in 1..Len(heap) : \A i \in 1..Len(heap[a]) :
        LET e == heap[a][i]
        IN  /\ run[e.inquiry].pc = "done"
            /\ Len(e.stages) > 0
            /\ e.stages[Len(e.stages)].kind = "leave"
            /\ e.stages[Len(e.stages)].name = "Respond"

\* a step changes an existing history array only by appending the entry of the
\* inquiry whose Respond stage returns in that step; a step in which a run
\* fails changes no array and no binding
C7_OnlyCompletionAppends ==
    /\ \A a \in 1..Len(heap) :
          heap'[a] # heap[a] =>
              \E r \in Runs :
                  /\ run[r].pc = "respond"
                  /\ run'[r].pc = "done"
                  /\ Len(heap'[a]) = Len(heap[a]) + 1
                  /\ SubSeq(heap'[a], 1, Len(heap[a])) = heap[a]
                  /\ heap'[a][Len(heap'[a])].inquiry = r
    /\ \A r \in Runs :
          (run[r].pc # "failed" /\ run'[r].pc = "failed") =>
              heap' = heap /\ historyVar' = historyVar /\ tgState' = tgState

\* C7: a history entry is appended only once the Respond stage of its inquiry
\* has completed, and a run that fails appends nothing and changes nothing of
\* the conversation history.
C7_HistoryOnlyAfterRespond == [](C7_EntriesAreComplete) /\ [][C7_OnlyCompletionAppends]_vars

C7_Witness ==
    /\ run[1].pc = "done"
    /\ run[2].pc = "failed"
    /\ Len(run[2].stages) > 2
    /\ \E a \in 1..Len(heap) : Len(heap[a]) = 1 /\ heap[a][1].inquiry = 1

\* C8 as stated: at most one pipeline run is in progress at any time for a
\* conversation.
C8_OneRunAtATime == Cardinality({r \in Runs : run[r].pc \in InProgress}) <= 1

\* a search attempt that asks for another: non-2xx, or 2xx with no hits
AsksForRetry(http) == http.seen /\ (~http.ok \/ (http.json /\ http.hits = 0))

\* C9 as stated: search makes at most three requests per run, and after a
\* non-2xx or empty-hits attempt it makes another while fewer than three were made.
C9_RetriesUpToThree ==
    \A r \in Runs :
        /\ run[r].requests <= 3
        /\ (run[r].pc # "search" /\ AsksForRetry(run[r].response)) => run[r].requests = 3

HasEvent(st, kind, name) == \E i \in 1..Len(st) : st[i].kind = kind /\ st[i].name = name

\* C10: when the third attempt is non-2xx, search fails and Respond is never
\* entered; when it is 2xx with no hits, search leaves with references = [] and
\* the pipeline goes on into Respond.
C10_ThirdAttempt ==
    \A r \in Runs :
        LET rec == run[r]
        IN  (rec.requests = 3 /\ rec.pc # "search") =>
                /\ ~rec.response.ok =>
                      /\ rec.pc = "failed"
                      /\ ~HasEvent(rec.stages, "enter", "Respond")
                      /\ ~HasEvent(rec.stages, "leave", "Search")
                /\ (rec.response.ok /\ rec.response.json /\ rec.response.hits = 0) =>
                      /\ rec.references = <<>>
                      /\ \E i \in 1..(Len(rec.stages) - 1) :
                            /\ rec.stages[i].kind = "leave"
                            /\ rec.stages[i].name = "Search"
                            /\ rec.stages[i + 1].kind = "enter"
                            /\ rec.stages[i + 1].name = "Respond"
                      /\ rec.pc \in {"respond", "done"}
                            \/ (rec.pc = "failed" /\ rec.chats > 1 /\ rec.answer = "")

C10_Witness ==
    /\ run[1].requests = 3
    /\ run[1].pc = "done"
    /\ run[1].response.ok /\ run[1].response.json /\ run[1].response.hits = 0
    /\ run[1].references = <<>>
    /\ HasEvent(run[1].stages, "leave", "Respond")

\* the answers of the search endpoint before the latest one were all non-2xx
FailedBefore(log) == \A i \in 1..(Len(log) - 1) : ~log[i].ok

\* C11 as stated: when the search endpoint answers non-2xx (with any body) on
\* the first one or two attempts, search asks again, and when the next answer is
\* 2xx with n >= 1 hits the run goes on into Respond with min(n, TOP_K)
\* references, numbered from 1, taken from that answer.
C11_RecoversAfterFailures ==
    \A r \in Runs :
        LET rec == run[r]
            log == rec.responses
        IN  /\ (Len(log) \in 1..2 /\ FailedBefore(log) /\ ~log[Len(log)].ok) =>
                  rec.pc = "search"
            /\ (/\ Len(log) \in 2..3
                /\ FailedBefore(log)
                /\ log[Len(log)].ok /\ log[Len(log)].json /\ log[Len(log)].hits >= 1) =>
                  /\ rec.pc # "search"
                  /\ HasEvent(rec.stages, "enter", "Respond")
                  /\ Len(rec.references) = MinOf({log[Len(log)].hits, TOP_K})
                  /\ \A i \in 1..Len(rec.references) :
                        rec.references[i] = [position |-> i, hit |-> i]

\* the entries of inquiry r in the history arrays
EntriesOf(r) ==
    {<<a, i>> \in (1..Len(heap)) \X (1..Cardinality(Runs)) :
        i <= Len(heap[a]) /\ heap[a][i].inquiry = r}

\* C12: when the chat endpoint answers non-2xx the call is not repeated and the
\* stream function is not called; the run fails inside the stage that made the
\* call, no later stage is entered and no history entry is appended for it.
C12_ChatFailureAborts ==
    \A r \in Runs :
        LET rec == run[r]
            log == rec.replies
        IN  (Len(log) > 0 /\ ~log[Len(log)].ok) =>
                /\ rec.pc = "failed"
                /\ rec.chats = Len(log)
                /\ rec.sunk = <<>>
                /\ rec.stages[Len(rec.stages)].kind = "enter"
                /\ rec.stages[Len(rec.stages)].name =
                      (IF rec.requests = 0 THEN "Reason" ELSE "Respond")
                /\ rec.answer = ""
                /\ EntriesOf(r) = {}

C12_Witness ==
    \E r \in Runs :
        /\ run[r].stream
        /\ Len(run[r].replies) = 2
        /\ ~run[r].replies[2].ok
        /\ HasEvent(run[r].stages, "enter", "Respond")
        /\ run[r].pc = "failed"
        /\ \E q \in Runs : EntriesOf(q) # {}

\* the index of the first event of that kind and name, 0 when there is none
FirstEvent(st, kind, name) ==
    IF HasEvent(st, kind, name)
    THEN MinOf({i \in 1..Len(st) : st[i].kind = kind /\ st[i].name = name})
    ELSE 0

\* C13: the stages run in the order Reason, Search, Respond, each entered only
\* after the one before has left; the query search sends is made of the
\* keyphrases reason left with, and the messages respond sends hold the language
\* reason left with and the references search left with.
C13_StagesInOrderWithContext ==
    \A r \in Runs :
        LET rec == run[r]
            st == rec.stages
            leftReason == FirstEvent(st, "leave", "Reason")
            leftSearch == FirstEvent(st, "leave", "Search")
            inSearch == FirstEvent(st, "enter", "Search")
            inRespond == FirstEvent(st, "enter", "Respond")
        IN  /\ Len(st) > 0 => st[1].kind = "enter" /\ st[1].name = "Reason"
            /\ \A i \in 1..Len(st) :
                  /\ st[i].name = "Reason" => (inSearch = 0 \/ i < inSearch)
                  /\ st[i].name = "Search" =>
                        /\ leftReason > 0 /\ leftReason < i
                        /\ inRespond = 0 \/ i < inRespond
                  /\ st[i].name = "Respond" => leftSearch > 0 /\ leftSearch < i
            /\ (leftReason > 0 /\ "keyphrases" \in DOMAIN st[leftReason].fields) =>
                  /\ rec.requests >= 1
                  /\ rec.query = queryOf(st[leftReason].fields["keyphrases"])
            /\ inRespond > 0 =>
                  LET seen == st[leftSearch].fields.references
                      spoken == st[leftReason].fields
                  IN  IF Len(seen) = 0 THEN rec.messages = <<>>
                      ELSE /\ Len(rec.messages) = 2
                           /\ rec.messages[1].references = seen
                           /\ rec.messages[1].language =
                                 (IF "language" \in DOMAIN spoken THEN spoken["language"]
                                  ELSE "undefined")

C13_Witness ==
    /\ run[1].pc = "done"
    /\ run[1].requests = 2
    /\ run[1].query = "k2"
    /\ Len(run[1].messages) = 2
    /\ Len(run[1].messages[1].references) = TOP_K
    /\ run[1].messages[1].language = "undefined"

\* C14: however the answer text is cut into chunks, pushing them and flushing
\* writes in all what pushing the whole text and flushing writes.
C14_ChunkingDoesNotChangeOutput ==
    citePc = "flushed" => written = writtenBy(NewDisplay, "", <<citeText>>)

\* no part of a marker is written before the marker is complete and
\* rewritten: what is out is at every moment the beginning of the rewritten text
C14_NoMarkerPartWritten ==
    citePc # "off" => startsWith(pushLoop(citeText, <<>>, 0).buffer, written)

singleDigitMarkerAt(t, i) ==
    /\ substring(t, i, i + 10) = "[citation:"
    /\ isDigit(charAt(t, i + 10))
    /\ charAt(t, i + 11) = "]"

\* the text with each '[citation:d]' replaced by '[k]', k counting the distinct
\* digits in the order they first appear; seen is the list of those met so far
RECURSIVE Renumbered(_, _, _)
Renumbered(t, i, seen) ==
    IF i >= Len(t) THEN ""
    ELSE IF singleDigitMarkerAt(t, i)
    THEN LET d == charAt(t, i + 10)
             known == \E j \in 1..Len(seen) : seen[j] = d
             seen2 == IF known THEN seen ELSE Append(seen, d)
             k == CHOOSE j \in 1..Len(seen2) : seen2[j] = d
         IN  "[" \o toString(k) \o "]" \o Renumbered(t, i + 12, seen2)
    ELSE charAt(t, i) \o Renumbered(t, i + 1, seen)

\* s with every occurrence of pat taken out
RECURSIVE without(_, _)
without(s, pat) ==
    IF indexOf(s, pat) < 0 THEN s
    ELSE substring(s, 0, indexOf(s, pat)) \o without(substrFrom(s, indexOf(s, pat) + Len(pat)), pat)

\* C15 as stated: what is written for an answer is the answer with every
\* single-digit marker '[citation:d]' replaced by '[k]' (in colour), where k is
\* the rank of d among the distinct digits in order of first appearance.
C15_DenseRenumbering ==
    citePc = "flushed" =>
        without(without(written, GRAY), NORMAL) = trimEnd(Renumbered(citeText, 0, <<>>))

\* every marker of the text carries one digit
SingleDigitMarkers(t) ==
    \A i \in 0..(Len(t) - 1) : matchesAt(t, i) => digitRun(t, i + 10) = 1

\* what does hold: the same for answers without markers of more than one digit
C15_DenseRenumberingOfSingleDigits == SingleDigitMarkers(citeText) => C15_DenseRenumbering

\* the search endpoint answered 2xx with no hits every time search asked
ThreeEmptyAnswers(log) ==
    /\ Len(log) = SEARCH_ATTEMPTS
    /\ \A i \in 1..Len(log) : log[i].ok /\ log[i].json /\ log[i].hits = 0

\* C16 as stated: after three 2xx answers with no hits Respond runs without
\* references, the answer is the empty string, and a history entry with
\* references = [] is appended for the inquiry.
C16_EmptySearchStillAnswers ==
    \A r \in Runs :
        LET rec == run[r]
        IN  (ThreeEmptyAnswers(rec.responses) /\ rec.pc # "search") =>
                /\ HasEvent(rec.stages, "enter", "Respond")
                /\ rec.messages = <<>>
                /\ rec.pc # "respond" =>
                      /\ rec.pc = "done"
                      /\ rec.answer = ""
                      /\ \E e \in EntriesOf(r) :
                            /\ "references" \in DOMAIN heap[e[1]][e[2]]
                            /\ heap[e[1]][e[2]].references = <<>>

\* the deltas from the first one that holds more than white space
RECURSIVE fromFirstText(_)
fromFirstText(ds) ==
    IF Len(ds) = 0 THEN <<>>
    ELSE IF trim(Head(ds)) = "" THEN fromFirstText(Tail(ds))
    ELSE ds

\* the texts passed to the sink, joined, are the answer chat returns
C17_SinkTextIsAnswer == (chatPc = "done" /\ call.handler) => join(emitted, "") = answer

\* every delta of the transcript reaches the sink once, in transcript order (the
\* first of them trimmed, white space before it dropped)
C17_EveryDeltaOnceInOrder ==
    (chatPc = "done" /\ streams(call) /\ ValidTranscript(frames)) =>
        LET ds == fromFirstText(nonEmptyDeltas(frames))
        IN  /\ Len(emitted) = Len(ds)
            /\ \A i \in 1..Len(ds) : emitted[i] = IF i = 1 THEN trim(ds[i]) ELSE ds[i]

\* C17 as stated: for a call with a sink the texts passed to it, joined in call
\* order, are the answer, and the deltas reach the sink in transcript order, none
\* twice and none skipped.
C17_SinkGetsEveryDelta == C17_SinkTextIsAnswer /\ C17_EveryDeltaOnceInOrder

\* the indices after o at which a fence opened at o can close
Closers(s, o) ==
    {c \in (o + 1)..(Len(s) - 1) : charAt(s, c) = "/" /\ charAt(s, c - 1) # "\\"}

\* the contents of the complete '/.../' fences of s from index from on, in order
RECURSIVE FencesFrom(_, _)
FencesFrom(s, from) ==
    LET openers == {o \in from..(Len(s) - 1) : charAt(s, o) = "/"}
    IN  IF openers = {} THEN <<>>
        ELSE LET o == MinOf(openers)
             IN  IF Closers(s, o) = {} THEN <<>>
                 ELSE <<substring(s, o + 1, MinOf(Closers(s, o)))>>
                          \o FencesFrom(s, MinOf(Closers(s, o)) + 1)

\* one regex per fence, or one of the whole string when there is no fence
RegexesFor(s) ==
    LET fences == FencesFrom(s, 0)
    IN  IF Len(fences) = 0 THEN <<RegExp(s, "gi")>>
        ELSE [i \in 1..Len(fences) |-> RegExp(fences[i], "gi")]

\* C18 as stated: regexify returns one regex per complete fence, in order, a '/'
\* after a backslash not closing a fence, and one regex of the whole string when
\* there is no complete fence.
C18_OneRegexPerFence ==
    regexPc \in {"done", "threw"} => regexPc = "done" /\ regexes = RegexesFor(expected)

\* C18 amended: the same whenever the whole string is a pattern or holds a
\* complete fence; a string without a fence that is not a pattern makes RegExp,
\* and so regexify, throw.
C18_OneRegexPerFenceOfPatterns ==
    regexPc \in {"done", "threw"} =>
        IF Len(FencesFrom(expected, 0)) = 0 /\ ~isPattern(expected)
        THEN regexPc = "threw"
        ELSE /\ regexPc = "done"
             /\ regexes = RegexesFor(expected)
             /\ expected = "capital /Paris/ and /France/" => Len(regexes) = 2
             /\ expected = "Paris" => Len(regexes) = 1

\* a fence that holds an escaped '/', after a filler
C18_Witness ==
    /\ regexPc = "done"
    /\ expected = " /\\//"
    /\ regexes = <<RegExp("\\/", "gi")>>

\* the first n characters of what the reads hold, in the same reads
RECURSIVE firstChars(_, _)
firstChars(rs, n) ==
    IF Len(rs) = 0 \/ n <= 0 THEN <<>>
    ELSE IF Len(Head(rs)) >= n THEN <<substring(Head(rs), 0, n)>>
    ELSE <<Head(rs)>> \o firstChars(Tail(rs), n - Len(Head(rs)))

\* the reads up to the end of the first line "data: [DONE]"
UpToDone(rs) == firstChars(rs, indexOf(join(rs, ""), "data: [DONE]") + Len("data: [DONE]"))

\* C19 as stated: what chat returns and what the sink has received are what they
\* were when the line "data: [DONE]" was read; frames after it, in the same read
\* or in a later one, add nothing.
C19_NothingAfterDone ==
    (chatPc = "done" /\ streams(call)) =>
        LET upTo == streamAll(StreamStart, UpToDone(delivered))
        IN  answer = upTo.answer /\ emitted = upTo.emitted

\* a data frame whose delta carries no content: absent, null or ""
Contentless(f) == f.kind \in {"role", "null"} \/ (f.kind = "delta" /\ f.content = "")

HasContent(f) == ~Contentless(f)

\* C20 as stated: in a transcript of data frames, the frames without content
\* change nothing: chat returns, and the sink receives, what they do for the
\* transcript without those frames, also when a read ends inside such a frame.
C20_ContentlessFramesChangeNothing ==
    (/\ chatPc = "done"
     /\ streams(call)
     /\ \A i \in 1..Len(frames) : frames[i].kind \in {"role", "null", "delta"}) =>
        LET plain == streamAll(StreamStart, <<transcriptOf(SelectSeq(frames, HasContent))>>)
        IN  answer = plain.answer /\ emitted = plain.emitted

\* the records of a text: its pieces between blank lines
recordsOf(t) == split(t, "\n\n")

\* a text made of two complete labelled records over the same markers, the
\* echoed one first
EchoThenActual(t) ==
    /\ Len(recordsOf(t)) = 2
    /\ LET echoed == deconstruct(recordsOf(t)[1], PREDEFINED_KEYS)
           actual == deconstruct(recordsOf(t)[2], PREDEFINED_KEYS)
       IN  /\ "topic" \in DOMAIN actual
           /\ DOMAIN echoed = DOMAIN actual
           /\ \A k \in DOMAIN actual : CleanValue(actual[k]) /\ echoed[k] # actual[k]

\* C21 as stated: when the text holds an earlier complete labelled record
\* followed by the actual record, deconstruct returns for every marker the value
\* of the later record, never the value of the echoed one.
C21_LaterRecordWins ==
    (codecPc = "parsed" /\ EchoThenActual(text))
        => parts = deconstruct(recordsOf(text)[2], PREDEFINED_KEYS)

\* the markers other than the anchor TOPIC
OtherMarkers == SubSeq(PREDEFINED_KEYS, 1, Len(PREDEFINED_KEYS) - 1)

\* the markers of OtherMarkers that occur in t
Present(t) == {i \in 1..Len(OtherMarkers) : indexOf(t, OtherMarkers[i] \o ":") >= 0}

\* where the value of marker i of t ends: at the next marker that follows it,
\* or at the end of t
valueEnd(t, i) ==
    LET from == lastIndexOf(t, OtherMarkers[i] \o ":")
        later == {indexOf(substrFrom(t, from + 1), OtherMarkers[j] \o ":") + from + 1 :
                    j \in {j \in Present(t) :
                             indexOf(substrFrom(t, from + 1), OtherMarkers[j] \o ":") >= 0}}
    IN  IF later = {} THEN Len(t) ELSE MinOf(later)

\* the value of marker i of t: the first line of what follows the marker
valueOf(t, i) ==
    LET from == lastIndexOf(t, OtherMarkers[i] \o ":") + Len(OtherMarkers[i]) + 1
    IN  split(trim(substring(t, from, valueEnd(t, i))), "\n")[1]

\* the markers present in t occur once each and in the order of PREDEFINED_KEYS
InOrder(t) ==
    /\ \A i \in Present(t) : Cardinality(occurrences(t, OtherMarkers[i] \o ":")) = 1
    /\ \A i, j \in Present(t) :
          i < j => indexOf(t, OtherMarkers[i] \o ":") < indexOf(t, OtherMarkers[j] \o ":")

\* what C22 promises of breakdown for the text t = hint + completion
FallbackKeepsMarkers(t, result) ==
    /\ deconstruct(t, PREDEFINED_KEYS) = EmptyMap
    /\ "topic" \in DOMAIN result /\ result["topic"] = "general knowledge."
    /\ \A i \in Present(t) :
          /\ toLowerCase(OtherMarkers[i]) \in DOMAIN result
          /\ result[toLowerCase(OtherMarkers[i])] = valueOf(t, i)

CountEvents(st, kind, name) ==
    Cardinality({i \in DOMAIN st : st[i].kind = kind /\ st[i].name = name})

\* the first chat call of reason was answered, and its parse has no keyphrases
FirstParseEmpty(rec) ==
    /\ Len(rec.replies) >= 1
    /\ rec.replies[1].ok
    /\ ~Has(breakdown(ReasonHint, trim(rec.replies[1].content)), "keyphrases")

\* reason has returned: its last chat call was answered
ReasonEnded(rec) ==
    /\ Len(rec.replies) >= 1
    /\ rec.replies[1].ok
    /\ FirstParseEmpty(rec) => (Len(rec.replies) >= 2 /\ rec.replies[2].ok)

\* C23: reason calls the chat endpoint at most twice; it makes the second call
\* if and only if the first parse yields empty or absent keyphrases, with the
\* same message list but for the final assistant message (same length, same
\* earlier messages); and it emits leave('Reason') exactly once, also when the
\* keyphrases are still empty after the retry.
C23_ReasonRetriesOnce ==
    \A r \in Runs :
        LET rec == run[r]
            sent == rec.prompts
        IN  /\ Len(sent) <= 2
            /\ rec.pc \notin {"new", "reason1"} =>
                  (Len(sent) = 2 <=> FirstParseEmpty(rec))
            /\ Len(sent) = 2 =>
                  /\ Len(sent[2]) = Len(sent[1])
                  /\ \A i \in 1..(Len(sent[1]) - 1) : sent[2][i] = sent[1][i]
                  /\ sent[2][Len(sent[2])].role = "assistant"
                  /\ sent[2][Len(sent[2])] # sent[1][Len(sent[1])]
            /\ CountEvents(rec.stages, "leave", "Reason")
                  = (IF ReasonEnded(rec) THEN 1 ELSE 0)

\* the retry was made with a history behind it and left the keyphrases empty
C23_Witness ==
    /\ Len(run[1].prompts) = 2
    /\ Len(run[1].prompts[1]) > 3
    /\ Len(run[1].replies) = 2
    /\ run[1].replies[2].ok
    /\ ~Has(run[1].result, "keyphrases")
    /\ CountEvents(run[1].stages, "leave", "Reason") = 1

\* reason made its retry and returned without keyphrases, and no endpoint
\* failed afterwards
EndedWithoutKeyphrases(rec) ==
    /\ Len(rec.prompts) = 2
    /\ ReasonEnded(rec)
    /\ ~Has(rec.result, "keyphrases")
    /\ \A i \in DOMAIN rec.responses : rec.responses[i].json /\ rec.responses[i].ok
    /\ \A i \in DOMAIN rec.replies : rec.replies[i].ok

\* the run went through search and respond and left its history entry
Completed(r, rec) ==
    /\ rec.pc = "done"
    /\ HasEvent(rec.stages, "leave", "Search")
    /\ HasEvent(rec.stages, "leave", "Respond")
    /\ \E h \in DOMAIN heap : \E i \in DOMAIN heap[h] : heap[h][i].inquiry = r

\* C24 as stated: when reason ends with empty or absent keyphrases after its one
\* retry, the pipeline does not fail: as long as the endpoints answer, search and
\* respond run to completion, each with its leave event, and a history entry is
\* appended for the inquiry.
C24_NoKeyphrasesStillCompletes ==
    \A r \in Runs :
        EndedWithoutKeyphrases(run[r]) =>
            /\ run[r].pc # "failed"
            /\ run[r].pc \notin {"search", "respond"} => Completed(r, run[r])

\* the same for keyphrases that are the empty string, which the code satisfies
C24_EmptyStringStillCompletes ==
    \A r \in Runs :
        (EndedWithoutKeyphrases(run[r]) /\ "keyphrases" \in DOMAIN run[r].result) =>
            /\ run[r].pc # "failed"
            /\ run[r].pc \notin {"search", "respond"} => Completed(r, run[r])

\* the place of a stage in the pipeline
StageRank(name) == CHOOSE i \in DOMAIN StageOrder : StageOrder[i] = name

\* C25 as stated: when a stage fails, no later stage is entered, and the events
\* recorded before the failure stay retrievable: a review command given
\* afterwards in the same conversation shows the events of the failed run.
C25_FailedRunCanBeReviewed ==
    /\ \A r \in Runs :
          run[r].pc = "failed" =>
              LET st == run[r].stages
              IN  /\ Len(st) > 0
                  /\ st[Len(st)].kind = "enter"
                  /\ \A i \in DOMAIN st :
                        StageRank(st[i].name) <= StageRank(st[Len(st)].name)
    /\ (reviewed.asked /\ reviewed.failed) =>
          /\ reviewed.found
          /\ reviewed.shown = simplify(run[reviewed.latest].stages)

\* the history as it stood when inquiry r arrived: the array its context holds,
\* without the entry of r itself
HistoryBefore(r) ==
    LET NotOwn(e) == e.inquiry # r
    IN  SelectSeq(heap[run[r].history], NotOwn)

\* C26: the message list reason sends is one system message, then one user and
\* assistant pair for each of the last min(3, |history|) history entries in
\* history order, then the user inquiry, then the assistant priming message
\* 'TOOL: Google.\nLANGUAGE: '; no entry older than the last three contributes a
\* message, and the few-shot example is part of the system message if and only
\* if the history is empty.
C26_ReasonPromptFromLastThree ==
    \A r \in Runs :
        Len(run[r].prompts) > 0 =>
            LET hist == HistoryBefore(r)
                n == MinOf({3, Len(hist)})
                old == Len(hist) - n
                msgs == run[r].prompts[1]
            IN  /\ Len(msgs) = 2 * n + 3
                /\ msgs[1].role = "system"
                /\ indexOf(msgs[1].content, REASON_EXAMPLE) >= 0 <=> Len(hist) = 0
                /\ \A j \in 1..n :
                      /\ msgs[2 * j] =
                            [role |-> "user",
                             content |-> inquiryOf(hist[old + j].inquiry)]
                      /\ msgs[2 * j + 1].role = "assistant"
                      /\ indexOf(msgs[2 * j + 1].content,
                                 "KEYPHRASES: " \o hist[old + j].result["keyphrases"]) >= 0
                /\ msgs[2 * n + 2] = [role |-> "user", content |-> inquiryOf(r)]
                /\ msgs[2 * n + 3] =
                      [role |-> "assistant", content |-> "TOOL: Google.\nLANGUAGE: "]
                /\ \A i \in 1..old : \A k \in DOMAIN msgs :
                      msgs[k].content # inquiryOf(hist[i].inquiry)

\* a prompt built from a history that has an entry older than the last three
C26_Witness ==
    /\ Len(run[1].prompts) > 0
    /\ Len(HistoryBefore(1)) = 4
    /\ Len(run[1].prompts[1]) = 9
    /\ run[1].prompts[1][2].content = inquiryOf(HistoryBefore(1)[2].inquiry)

\* where the markers with a two-digit number stand in t
TwoDigitMarkers(t) ==
    {i \in 0..(Len(t) - 1) : matchesAt(t, i) /\ digitRun(t, i + 10) = 2}

\* C27 as stated: a citation marker with a two-digit number passes through push
\* and flush unchanged as literal text: what is written holds the marker as
\* often as the answer does, and its number is never added to refs.
C27_TwoDigitMarkerIsLiteral ==
    \A i \in TwoDigitMarkers(citeText) :
        LET marker == substring(citeText, i, i + 13)
            num == parseInt(substring(citeText, i + 10, i + 12))
        IN  /\ refIndexOf(display.refs, num) < 0
            /\ citePc = "flushed" =>
                  Cardinality(occurrences(written, marker))
                      = Cardinality(occurrences(citeText, marker))

\* a is a prefix of b
IsPrefix(a, b) == Len(a) <= Len(b) /\ SubSeq(b, 1, Len(a)) = a

\* every context a stage returned holds the fields of the contexts before it,
\* with their values, and the fields the stage filled
ContextsAccumulate(rec) ==
    LET cs == rec.contexts
    IN  /\ \A i, j \in DOMAIN cs :
              i < j => \A k \in DOMAIN cs[i] : k \in DOMAIN cs[j] /\ cs[j][k] = cs[i][k]
        /\ Len(cs) >= 2 =>
              \A k \in ReasonFields \cap DOMAIN rec.result : 
                  k \in DOMAIN cs[2] /\ cs[2][k] = rec.result[k]
        /\ Len(cs) >= 3 => cs[3]["references"] = rec.references
        /\ Len(cs) >= 4 => cs[4]["answer"] = rec.answer

\* a step leaves every context object as it was and the history arrays too,
\* but for the entry the handler pushes when a pipeline has resolved
NothingMutated ==
    /\ \A r \in Runs : run[r].pc # "new" => IsPrefix(run[r].contexts, run'[r].contexts)
    /\ \A h \in DOMAIN heap :
          \/ heap'[h] = heap[h]
          \/ /\ IsPrefix(heap[h], heap'[h])
             /\ Len(heap'[h]) = Len(heap[h]) + 1
             /\ \E r \in Runs : run[r].pc = "respond" /\ run'[r].pc = "done"

\* C28: no stage mutates the context it receives or the history list: after
\* reason, search or respond returns, the fields of the input context and the
\* history sequence are as before, and every field an earlier stage filled has
\* the same value in the context each later stage returns.
C28_StagesDoNotMutate ==
    /\ [](\A r \in Runs : ContextsAccumulate(run[r]))
    /\ [][NothingMutated]_vars

\* the three stages returned, with a history behind the inquiry
C28_Witness ==
    /\ run[1].pc = "done"
    /\ Len(run[1].contexts) = 4
    /\ Len(HistoryBefore(1)) >= 1
    /\ DOMAIN run[1].contexts[1] = {"inquiry", "history", "delegates"}
    /\ {"keyphrases", "references", "answer"} \subseteq DOMAIN run[1].contexts[4]

\* the Respond stage is active: enter('Respond') is the latest event
RespondActive(rec) ==
    /\ Len(rec.stages) > 0
    /\ rec.stages[Len(rec.stages)].kind = "enter"
    /\ rec.stages[Len(rec.stages)].name = "Respond"

\* a step in which the stream delegate of a run is invoked starts with Respond
\* active
StreamOnlyInRespond ==
    \A r \in Runs :
        (run[r].pc # "new" /\ run'[r].sunk # run[r].sunk) =>
            RespondActive(run[r]) /\ IsPrefix(run[r].sunk, run'[r].sunk)

\* C30: the stream delegate is invoked only while the Respond stage is active,
\* after enter('Respond') and before leave('Respond'); the chat calls of reason,
\* the first and the retry, never emit anything to it.
C30_StreamOnlyDuringRespond ==
    /\ [](\A r \in Runs :
            ~HasEvent(run[r].stages, "enter", "Respond") => run[r].sunk = <<>>)
    /\ [][StreamOnlyInRespond]_vars

\* reason called chat twice, both answered with text, and respond streamed
C30_Witness ==
    /\ run[1].pc = "done"
    /\ run[1].stream
    /\ Len(run[1].replies) = 3
    /\ Len(trim(run[1].replies[1].content)) > 0
    /\ Len(trim(run[1].replies[2].content)) > 0
    /\ run[1].sunk = <<run[1].answer>>
    /\ run[1].answer # ""

\* the roles evaluate knows
KnownRoles ==
    {"Story", "User", "Assistant", "Pipeline.Reason.Keyphrases", "Pipeline.Reason.Topic"}

\* a line is a directive when, comment and outer blanks apart, it holds a colon;
\* its role is what stands before the first colon, its content what follows
IsDirective(raw) == indexOf(trimLine(raw), ":") >= 0

RoleOf(raw) == substring(trimLine(raw), 0, indexOf(trimLine(raw), ":"))

ContentOf(raw) == trim(substrFrom(trimLine(raw), indexOf(trimLine(raw), ":") + 1))

IsExpectation(raw) == IsDirective(raw) /\ RoleOf(raw) \in KnownRoles \ {"Story", "User"}

\* what an expectation is about, in the latest answered inquiry
TargetOf(raw, last) ==
    IF RoleOf(raw) = "Assistant" THEN last.answer
    ELSE IF RoleOf(raw) = "Pipeline.Reason.Keyphrases" THEN last.keyphrases
    ELSE last.topic

\* line i raised an error: its pipeline rejected, or its expectation had no
\* answer to look at or is not a regular expression
Raises(i) ==
    \/ handled[i].rejected
    \/ /\ IsExpectation(fileLines[i])
       /\ \/ ~handled[i].last.ok
          \/ /\ Len(FencesFrom(ContentOf(fileLines[i]), 0)) = 0
             /\ ~isPattern(ContentOf(fileLines[i]))

\* line i is an expectation the latest answer does not meet
Mismatch(i) ==
    /\ IsExpectation(fileLines[i])
    /\ ~Raises(i)
    /\ \E k \in DOMAIN RegexesFor(ContentOf(fileLines[i])) :
          indexOf(TargetOf(fileLines[i], handled[i].last),
                  RegexesFor(ContentOf(fileLines[i]))[k].source) < 0

\* line i gives no reason for a non-zero exit
Passes(i) ==
    IsDirective(fileLines[i]) =>
        /\ RoleOf(fileLines[i]) \in KnownRoles
        /\ ~Raises(i)
        /\ ~Mismatch(i)

StoredHistory == IF tgState = 0 THEN <<>> ELSE heap[tgState]

\* C31 as stated: in the Telegram front-end, when no /reset was handled and
\* every inquiry received for the chat has settled, the stored history holds
\* exactly one entry per completed inquiry, also when the inquiries overlapped.
C31_OneEntryPerCompletedInquiry ==
    (fe = "telegram" /\ resets = 0 /\ \A r \in Runs : run[r].pc \notin InProgress) =>
        /\ Len(StoredHistory) = Cardinality({r \in Runs : run[r].pc = "done"})
        /\ \A r \in Runs :
              run[r].pc = "done" =>
                  \E i \in DOMAIN StoredHistory : StoredHistory[i].inquiry = r

\* the history a front-end holds now: the array `history` is bound to, or
\* state[chat.id]
CurrentHistory == IF fe = "telegram" THEN StoredHistory ELSE heap[historyVar]

\* the inquiries that arrived before the latest /reset was handled
StartedBeforeReset == {r \in Runs : run[r].pc # "new" /\ run[r].epoch < resets}

\* C32 as stated: once a /reset was handled, the history holds no entry of an
\* inquiry that started before it, also when that inquiry was still in flight
\* when the reset arrived (HTTP and Telegram front-ends).
C32_ResetForgetsEarlierInquiries ==
    (fe \in {"http", "telegram"} /\ resets > 0) =>
        \A i \in DOMAIN CurrentHistory : CurrentHistory[i].inquiry \notin StartedBeforeReset

\* the same for the HTTP front-end alone
C32_ResetForgetsEarlierInquiriesHttp ==
    fe = "http" => C32_ResetForgetsEarlierInquiries

\* the same for the Telegram front-end alone
C32_ResetForgetsEarlierInquiriesTelegram ==
    fe = "telegram" => C32_ResetForgetsEarlierInquiries

\* the same for the terminal, where a command is read only between two runs
C32_ResetForgetsEarlierInquiriesTerminal ==
    (fe = "terminal" /\ resets > 0) =>
        \A i \in DOMAIN CurrentHistory : CurrentHistory[i].inquiry \notin StartedBeforeReset

\* C33 as stated: format terminates for every answer, also for one that holds
\* '[citation:' followed by a character that is not a digit: every call
\* eventually returns or throws.
C33_FormatTerminates == <>(formatPc \in {"returned", "threw"})

\* the same for the answers in which every '[citation:' is followed by a digit
C33_FormatTerminatesOnDigits ==
    (\A i \in occurrences(formatted.buffer, "[citation:") :
        isDigit(charAt(formatted.buffer, i + 10)))
        => <>(formatPc \in {"returned", "threw"})

\* the citation numbers the handler of a run collects: interact from the
\* streamed texts, poll from the answer
CitedBy(rec) ==
    IF fe = "terminal" THEN displayed(NewDisplay, rec.sunk).refs
    ELSE formatLoop(NewFormat(rec.answer)).refs

\* the runs whose pipeline resolved
Resolved == {r \in Runs : run[r].pc \in {"done", "threw", "hung"}}

\* C34 as stated: when the handler lists the cited sources, every citation
\* number n it dereferences satisfies 1 <= n <= |references| (terminal and
\* Telegram front-ends), so no handler throws after its pipeline has resolved.
C34_ListingStaysInRange ==
    fe \in {"terminal", "telegram"} =>
        \A r \in Resolved :
            LET refs == CitedBy(run[r])
            IN  /\ listed(refs, run[r].references) =>
                      \A i \in 1..Len(refs) :
                          refs[i] >= 1 /\ refs[i] <= Len(run[r].references)
                /\ run[r].pc # "threw"

\* the same for the terminal alone
C34_ListingStaysInRangeTerminal == fe = "terminal" => C34_ListingStaysInRange

\* the same for Telegram alone
C34_ListingStaysInRangeTelegram == fe = "telegram" => C34_ListingStaysInRange

\* C35 as stated: for every hint and completion the mapping breakdown returns
\* has a non-empty topic, also when the completion holds a 'TOPIC:' marker
\* whose value is empty.
C35_BreakdownAlwaysHasTopic ==
    codecPc = "brokendown" => ("topic" \in DOMAIN parts /\ parts["topic"] # "")

\* what stands between the 'TOPIC:' marker at index i of t and the next one,
\* trimmed, up to the end of its first line
topicAt(t, i) ==
    LET from == i + Len("TOPIC:")
        next == {j \in occurrences(t, "TOPIC:") : j > i}
        to == IF next = {} THEN Len(t) ELSE MinOf(next)
    IN  split(trim(substring(t, from, to)), "\n")[1]

\* the same for the texts in which no 'TOPIC:' marker has an empty value
C35_BreakdownHasTopicUnlessEmptyMarker ==
    (codecPc = "brokendown" /\ \A i \in occurrences(text, "TOPIC:") : topicAt(text, i) # "")
        => ("topic" \in DOMAIN parts /\ parts["topic"] # "")

\* the pipeline of run r is under way
Running(r) == run[r].pc \in InProgress

\* the chat calls of a run: reason's, one per message list, and respond's
\* at most one; search asks with attempt 3, then 2, then 1
CallsAreBounded ==
    \A r \in Runs :
        LET rec == run[r]
            responding == HasEvent(rec.stages, "enter", "Respond")
        IN  /\ Len(rec.prompts) <= 2
            /\ rec.chats = Len(rec.prompts) + (IF responding THEN 1 ELSE 0)
            /\ rec.requests <= SEARCH_ATTEMPTS
            /\ rec.requests > 0 =>
                  /\ rec.attempt \in 1..SEARCH_ATTEMPTS
                  /\ rec.attempt = SEARCH_ATTEMPTS + 1 - rec.requests
            /\ (~Running(r) /\ rec.pc # "new") =>
                  \/ rec.pc = "failed"
                  \/ /\ rec.pc \in {"done", "threw", "hung"}
                     /\ Len(rec.contexts) = 4
                     /\ "answer" \in DOMAIN rec.contexts[4]

\* a step in which search asks again lowers its attempt number by one
AttemptDecreases ==
    \A r \in Runs :
        run'[r].requests > run[r].requests =>
            /\ run'[r].requests = run[r].requests + 1
            /\ run[r].requests > 0 => run'[r].attempt = run[r].attempt - 1
            /\ run[r].requests = 0 => run'[r].attempt = SEARCH_ATTEMPTS

\* C36: when every call that is under way returns, every pipeline run ends,
\* with a final context or with an error: reason makes at most two chat calls,
\* search lowers its attempt number from 3 to 1, respond makes one chat call.
C36_PipelineTerminates ==
    /\ [](CallsAreBounded)
    /\ [][AttemptDecreases]_vars
    /\ \A r \in Runs : Running(r) ~> ~Running(r)

C36_Witness ==
    /\ run[1].pc = "done"
    /\ Len(run[1].prompts) = 2
    /\ run[1].requests = 3
    /\ run[1].attempt = 1
    /\ run[1].chats = 3

====
